---- MODULE Spec2Model ----
(***************************************************************************)
(* A model of the hrzn grid library: the rectangle types, the grid         *)
(* containers (dense, bit-packed, view), the iteration protocol and the    *)
(* spatial algorithms.  Three revisions of the library live side by side   *)
(* in the repository and are modelled side by side:                        *)
(*   hrzn/  : Area (inclusive bounds, normalising constructor), IMatrix,   *)
(*            MatrixContainer, SubMatrix, HMask, Region                    *)
(*   htl/hrzn.h + htl/utility.h : hArea (inclusive bounds, constructor     *)
(*            keeps its arguments), IMap, HMap                             *)
(*   htl/basic_types.h + htl/containers.h : i_rectangle (x,y,w,h) and      *)
(*            point_area (exclusive upper bounds), Map, MapContainer       *)
(***************************************************************************)
EXTENDS Integers, Sequences, FiniteSets, TLC

VARIABLES rc, it, grid, last, maskA, maskB, denseA, ff, ca

vars == <<rc, it, grid, last, maskA, maskB, denseA, ff, ca>>

(***************************************************************************)
(* Bounds of the model.                                                    *)
(***************************************************************************)
\* rectangle corner coordinates are drawn from -1..MaxCoord
MaxCoord == 1

\* the value a variable of a specification that does not use it is held at
Idle == [op |-> "idle"]

Min(a, b) == IF a < b THEN a ELSE b

Max(a, b) == IF a > b THEN a ELSE b

(***************************************************************************)
(* Rectangles.                                                             *)
(***************************************************************************)
\* hrzn::Area(x_1, y_1, x_2, y_2): the constructor orders the corners
Area(x_1, y_1, x_2, y_2) ==
    [x1 |-> Min(x_1, x_2), y1 |-> Min(y_1, y_2),
     x2 |-> Max(x_1, x_2), y2 |-> Max(y_1, y_2)]

\* htl hArea(x_1, y_1, x_2, y_2): the constructor keeps its arguments
hArea(x_1, y_1, x_2, y_2) ==
    [x1 |-> x_1, y1 |-> y_1, x2 |-> x_2, y2 |-> y_2]

\* htl i_rectangle(x, y, w, h)
i_rectangle(x, y, w, h) ==
    [x |-> x, y |-> y, w |-> w, h |-> h]

\* operator==(Area, Area) and operator==(hArea, hArea)
Area_eq(a, b) ==
    a.x1 = b.x1 /\ a.y1 = b.y1 /\ a.x2 = b.x2 /\ a.y2 = b.y2

\* operator==(i_rectangle, i_rectangle)
i_rectangle_eq(a, b) ==
    a.x = b.x /\ a.y = b.y /\ a.w = b.w /\ a.h = b.h

\* a plausible slip: the left operand's x1 is taken instead of the maximum
Area_intersect_LeftX1(a, b) ==
    Area(a.x1, Max(a.y1, b.y1), Min(a.x2, b.x2), Min(a.y2, b.y2))

\* Area::intersect and hrzn::intersect(Area, Area)
Area_intersect(a, b) ==
    Area(Max(a.x1, b.x1), Max(a.y1, b.y1), Min(a.x2, b.x2), Min(a.y2, b.y2))

\* hArea::intersect
hArea_intersect(a, b) ==
    hArea(Max(a.x1, b.x1), Max(a.y1, b.y1), Min(a.x2, b.x2), Min(a.y2, b.y2))

\* intersect(i_rectangle, i_rectangle)
intersect(a, b) ==
    LET x == Max(a.x, b.x)
        y == Max(a.y, b.y)
        w == Min(a.x + a.w, b.x + b.w) - x
        h == Min(a.y + a.h, b.y + b.h) - y
    IN  i_rectangle(x, y, w, h)

\* Area::width, Area::height, Area::area (hrzn): inclusive bounds
Area_width(a) == a.x2 - a.x1 + 1

Area_height(a) == a.y2 - a.y1 + 1

Area_area(a) == Area_width(a) * Area_height(a)

\* Area::contains(x, y) and hArea::contains(x, y)
Area_contains(a, x, y) ==
    x >= a.x1 /\ x <= a.x2 /\ y >= a.y1 /\ y <= a.y2

\* hArea::width, hArea::height, hArea::area (htl): inclusive bounds, never
\* negative
hArea_width(a) == Max(a.x2 - a.x1 + 1, 0)

hArea_height(a) == Max(a.y2 - a.y1 + 1, 0)

hArea_area(a) == hArea_width(a) * hArea_height(a)

\* point_area (htl/containers.h builds on it; its definition is not part of
\* the sources): x2 and y2 are one past the last column and row
point_area(x_1, y_1, x_2, y_2) ==
    [x1 |-> x_1, y1 |-> y_1, x2 |-> x_2, y2 |-> y_2]

point_area_width(a) == Max(a.x2 - a.x1, 0)

point_area_height(a) == Max(a.y2 - a.y1, 0)

point_area_area(a) == point_area_width(a) * point_area_height(a)

point_area_contains(a, x, y) ==
    x >= a.x1 /\ x < a.x2 /\ y >= a.y1 /\ y < a.y2

(***************************************************************************)
(* SpecRect: the rectangle functions applied to drawn arguments.           *)
(***************************************************************************)
Coords == (0 - 1)..MaxCoord

Quads == Coords \X Coords \X Coords \X Coords

\* the three rectangle types built from the same four integers
AsArea(q) == Area(q[1], q[2], q[3], q[4])

AshArea(q) == hArea(q[1], q[2], q[3], q[4])

AsRect(q) == i_rectangle(q[1], q[2], q[3], q[4])

notRc == <<it, grid, last, maskA, maskB, denseA, ff, ca>>

InitRect ==
    /\ \E qa \in Quads, qb \in Quads :
          rc = [op |-> "none", a |-> qa, b |-> qb, out |-> Idle, rev |-> Idle]
    /\ it = Idle /\ grid = Idle /\ last = Idle
    /\ maskA = Idle /\ maskB = Idle /\ denseA = Idle
    /\ ff = Idle /\ ca = Idle

CallAreaIntersect ==
    /\ rc.op = "none"
    /\ rc' = [rc EXCEPT !.op = "Area::intersect",
                        !.out = Area_intersect(AsArea(rc.a), AsArea(rc.b)),
                        !.rev = Area_intersect(AsArea(rc.b), AsArea(rc.a))]
    /\ UNCHANGED notRc

CallhAreaIntersect ==
    /\ rc.op = "none"
    /\ rc' = [rc EXCEPT !.op = "hArea::intersect",
                        !.out = hArea_intersect(AshArea(rc.a), AshArea(rc.b)),
                        !.rev = hArea_intersect(AshArea(rc.b), AshArea(rc.a))]
    /\ UNCHANGED notRc

CallRectIntersect ==
    /\ rc.op = "none"
    /\ rc' = [rc EXCEPT !.op = "intersect",
                        !.out = intersect(AsRect(rc.a), AsRect(rc.b)),
                        !.rev = intersect(AsRect(rc.b), AsRect(rc.a))]
    /\ UNCHANGED notRc

\* split(const Area&) of hrzn/utility.h; center() is
\* { (x2 - x1) / 2 + x1, (y2 - y1) / 2 + y1 }
utility_split(area) ==
    LET cp == [x |-> ((area.x2 - area.x1) \div 2) + area.x1,
               y |-> ((area.y2 - area.y1) \div 2) + area.y1]
    IN  IF Area_height(area) > 1 /\ Area_height(area) > Area_width(area)
        THEN <<[area EXCEPT !.y2 = cp.y], [area EXCEPT !.y1 = cp.y + 1]>>
        ELSE IF Area_width(area) > 1
        THEN <<[area EXCEPT !.x2 = cp.x], [area EXCEPT !.x1 = cp.x + 1]>>
        ELSE <<area, area>>

\* split(const hArea&) of htl/utility.h
htl_split(area) ==
    LET cp == [x |-> ((area.x2 - area.x1) \div 2) + area.x1,
               y |-> ((area.y2 - area.y1) \div 2) + area.y1]
    IN  IF hArea_height(area) > 1 /\ hArea_height(area) > hArea_width(area)
        THEN <<[area EXCEPT !.y2 = cp.y], [area EXCEPT !.y1 = cp.y]>>
        ELSE IF hArea_width(area) > 1
        THEN <<[area EXCEPT !.x2 = cp.x], [area EXCEPT !.x1 = cp.x]>>
        ELSE <<area, area>>

\* split(i_rectangle) of htl/basic_types.h; center() is
\* { w / 2 + x, h / 2 + y } and valid() is w > 0 && h > 0
split(area) ==
    LET cp == [x |-> (area.w \div 2) + area.x, y |-> (area.h \div 2) + area.y]
    IN  IF area.h > area.w
        THEN <<[area EXCEPT !.h = cp.y - area.h],
               [area EXCEPT !.y = cp.y, !.h = area.y + area.h - cp.y]>>
        ELSE IF area.w > 0 /\ area.h > 0
        THEN <<[area EXCEPT !.w = cp.x - area.w],
               [area EXCEPT !.x = cp.x, !.w = area.x + area.w - cp.x]>>
        ELSE <<area, area>>

\* the i_rectangle of the cells of an Area
RectOfArea(a) == i_rectangle(a.x1, a.y1, Area_width(a), Area_height(a))

\* split applied to the rectangle of the corners rc.a, as an Area, as an
\* hArea and as an i_rectangle of the same cells
CallSplit ==
    /\ rc.op = "none"
    /\ \E fn \in {"utility_split", "htl_split", "split"} :
          rc' = [rc EXCEPT !.op = fn,
                           !.out = CASE fn = "utility_split" ->
                                          utility_split(AsArea(rc.a))
                                     [] fn = "htl_split" ->
                                          htl_split(AsArea(rc.a))
                                     [] fn = "split" ->
                                          split(RectOfArea(AsArea(rc.a)))]
    /\ UNCHANGED notRc

NextRect ==
    \/ CallAreaIntersect
    \/ CallhAreaIntersect
    \/ CallRectIntersect
    \/ CallSplit

SpecRect == InitRect /\ [][NextRect]_vars

(***************************************************************************)
(* C10: intersect(a,b) == intersect(b,a) for all rectangles a and b, for   *)
(* each of the three intersect functions, compared with the type's own     *)
(* operator==.                                                             *)
(***************************************************************************)
C10_IntersectSymmetric ==
    /\ rc.op \in {"Area::intersect", "hArea::intersect"}
          => Area_eq(rc.out, rc.rev)
    /\ rc.op = "intersect" => i_rectangle_eq(rc.out, rc.rev)

\* two different, partly overlapping areas have been intersected
C10_Witness ==
    /\ rc.op = "Area::intersect"
    /\ AsArea(rc.a) # AsArea(rc.b)
    /\ rc.out # AsArea(rc.a)
    /\ rc.out # AsArea(rc.b)
    /\ rc.out.x1 < rc.out.x2

(***************************************************************************)
(* Index translation of the grid contract.                                 *)
(***************************************************************************)
\* what a call yields: std::out_of_range thrown, a linear index, a value
\* read, or the outcome of an access outside the allocated array (undefined
\* behaviour: nothing can be relied on)
Thrown == [ex |-> "out_of_range"]

Index(i) == [ex |-> "none", i |-> i]

Got(v) == [ex |-> "none", val |-> v]

Undefined == [ex |-> "undefined"]

\* a plausible slip: the bounds check is left out (as under H_NOEXCEPTIONS)
IMatrix_f_index_Unchecked(a, x, y) ==
    Index((x - a.x1) + (y - a.y1) * Area_width(a))

\* IMatrix::f_index (hrzn): the linear index, or the exception
IMatrix_f_index(a, x, y) ==
    IF Area_contains(a, x, y)
    THEN Index((x - a.x1) + (y - a.y1) * Area_width(a))
    ELSE Thrown

\* IMap::f_index (htl/hrzn.h)
IMap_f_index(a, x, y) ==
    IF Area_contains(a, x, y)
    THEN Index((x - a.x1) + (y - a.y1) * hArea_width(a))
    ELSE Thrown

\* Map::f_index (htl/containers.h), exceptions enabled
Map_f_index(a, x, y) ==
    IF ~point_area_contains(a, x, y)
    THEN Thrown
    ELSE Index((x - a.x1) + (y - a.y1) * point_area_width(a))

(***************************************************************************)
(* The iteration protocol.                                                 *)
(***************************************************************************)
\* Map::begin and Map::end: iterators are cells, compared by position
Map_begin(m) == [x |-> m.x1, y |-> m.y1]

Map_end(m) == [x |-> m.x1, y |-> m.y2]

\* operator==(i_tuple2, i_tuple2), which Map::Iterator inherits
i_tuple2_eq(a, b) == a.x = b.x /\ a.y = b.y

\* a plausible slip: x2 is taken for the last column
Map_Iterator_inc_Inclusive(m, p) ==
    LET y == p.y + (IF p.x = m.x2 THEN 1 ELSE 0)
        x == ((p.x - m.x1 + 1) % point_area_width(m)) + m.x1
    IN  [x |-> x, y |-> y]

\* Map::Iterator::operator++
Map_Iterator_inc(m, p) ==
    LET y == p.y + (IF p.x = m.x2 - 1 THEN 1 ELSE 0)
        x == ((p.x - m.x1 + 1) % point_area_width(m)) + m.x1
    IN  [x |-> x, y |-> y]

\* the position and data pointer a RegionIterator holds at index i: data is
\* the cell of the source (its linear index), or the exception source->at
\* raised, or null at the end
Nullptr == [ex |-> "nullptr"]

RegionPoint(source, area, i) ==
    LET x == area.x1 + (i % Area_width(area))
        y == area.y1 + (i \div Area_width(area))
    IN  [x |-> x, y |-> y,
         data |-> IF i # Area_area(area)
                  THEN IMatrix_f_index(source, x, y)
                  ELSE Nullptr]

\* Region::RegionIterator(source, area, i), source being the matrix area
RegionIterator(source, area, i) ==
    [m_source |-> source, m_area |-> area, m_index |-> i,
     m_container |-> RegionPoint(source, area, i)]

\* Region::RegionIterator::operator++
RegionIterator_inc(r) ==
    RegionIterator(r.m_source, r.m_area, r.m_index + 1)

\* operator==(RegionIterator, RegionIterator)
RegionIterator_eq(a, b) ==
    a.m_source = b.m_source /\ a.m_index = b.m_index

\* IMatrix::region(): the region over the whole matrix
Region_begin(source) == RegionIterator(source, source, 0)

Region_end(source) == RegionIterator(source, source, Area_area(source))

(***************************************************************************)
(* SpecIter: a range-for loop over a grid, one increment per step.         *)
(***************************************************************************)
\* grids are up to MaxW wide and MaxH high
MaxW == 3

MaxH == 3

Origins == {<<0, 0>>, <<2, 3>>, <<0 - 1, 0 - 2>>}

\* the valid point_areas and Areas of the bounded shapes
PointAreas ==
    {point_area(o[1], o[2], o[1] + w, o[2] + h) :
        o \in Origins, w \in 1..MaxW, h \in 1..MaxH}

Areas ==
    {Area(o[1], o[2], o[1] + w - 1, o[2] + h - 1) :
        o \in Origins, w \in 1..MaxW, h \in 1..MaxH}

notIt == <<rc, grid, last, maskA, maskB, denseA, ff, ca>>

InitIter ==
    /\ \/ \E m \in PointAreas :
             it = [kind |-> "Map::Iterator", map |-> m, n |-> 0,
                   cur |-> Map_begin(m)]
       \/ \E a \in Areas :
             it = [kind |-> "RegionIterator", map |-> a, n |-> 0,
                   cur |-> Region_begin(a)]
    /\ rc = Idle /\ grid = Idle /\ last = Idle
    /\ maskA = Idle /\ maskB = Idle /\ denseA = Idle
    /\ ff = Idle /\ ca = Idle

\* for (auto& cell : map): one ++ while the iterator differs from end()
MapIteratorStep ==
    /\ it.kind = "Map::Iterator"
    /\ ~i_tuple2_eq(it.cur, Map_end(it.map))
    /\ it' = [it EXCEPT !.cur = Map_Iterator_inc(it.map, it.cur),
                        !.n = it.n + 1]
    /\ UNCHANGED notIt

\* for (auto cell : mat.region())
RegionIteratorStep ==
    /\ it.kind = "RegionIterator"
    /\ ~RegionIterator_eq(it.cur, Region_end(it.map))
    /\ it' = [it EXCEPT !.cur = RegionIterator_inc(it.cur),
                        !.n = it.n + 1]
    /\ UNCHANGED notIt

NextIter ==
    \/ MapIteratorStep
    \/ RegionIteratorStep

SpecIter == InitIter /\ [][NextIter]_vars

\* width, height, origin and position of the iteration in progress
ItW == IF it.kind = "Map::Iterator"
       THEN point_area_width(it.map) ELSE Area_width(it.map)

ItH == IF it.kind = "Map::Iterator"
       THEN point_area_height(it.map) ELSE Area_height(it.map)

ItPos == IF it.kind = "Map::Iterator"
         THEN it.cur
         ELSE [x |-> it.cur.m_container.x, y |-> it.cur.m_container.y]

ItAtEnd == IF it.kind = "Map::Iterator"
           THEN i_tuple2_eq(it.cur, Map_end(it.map))
           ELSE RegionIterator_eq(it.cur, Region_end(it.map))

(***************************************************************************)
(* C3: iterating a W x H grid that starts at (x1,y1) from begin() by       *)
(* repeated ++: the n-th step is at (x1 + n mod W, y1 + n div W) for       *)
(* n = 0..W*H-1 (so no position repeats and none is left out), and the     *)
(* iterator equals end() exactly after W*H increments.  A RegionIterator   *)
(* before the end holds the cell of its position.                          *)
(***************************************************************************)
C3_RowMajorTraversal ==
    /\ it.n <= ItW * ItH
    /\ it.n < ItW * ItH =>
          /\ ItPos.x = it.map.x1 + (it.n % ItW)
          /\ ItPos.y = it.map.y1 + (it.n \div ItW)
    /\ ItAtEnd <=> (it.n = ItW * ItH)
    /\ (it.kind = "RegionIterator" /\ it.n < ItW * ItH) =>
          it.cur.m_container.data = Index(it.n)

\* the last cell of a grid of several rows and columns, away from the
\* origin, has been reached, and then the end
C3_Witness ==
    /\ it.kind = "Map::Iterator"
    /\ ItW > 1 /\ ItH > 1 /\ it.map.x1 # 0
    /\ it.n = ItW * ItH
    /\ ItAtEnd

(***************************************************************************)
(* Grid containers.  A cell holds 0 (false) or 1 (true); storage is an     *)
(* array indexed from 0.                                                   *)
(***************************************************************************)
Vals == {0, 1}

\* the content of a cell that was allocated and never written
Indet == 0 - 1

\* new T[n]: n cells, here all holding obj
NewArray(n, obj) == [i \in 0..(n - 1) |-> obj]

\* m_contents[index]: a read outside the allocated array is undefined
ArrayRead(g, index) ==
    IF index.ex # "none" THEN index
    ELSE IF index.i \in DOMAIN g.m_contents
         THEN Got(g.m_contents[index.i])
         ELSE Undefined

\* m_contents[index] = val: yields the container after the call and how the
\* call ended
ArrayWrite(g, index, val) ==
    IF index.ex # "none" THEN [g |-> g, ex |-> index.ex]
    ELSE IF index.i \in DOMAIN g.m_contents
         THEN [g |-> [g EXCEPT !.m_contents[index.i] = val], ex |-> "none"]
         ELSE [g |-> g, ex |-> "undefined"]

\* the points "for (y = ylo; y <= yhi; ++y) for (x = xlo; x <= xhi; ++x)"
\* visits, in order
LoopPoints(xlo, xhi, ylo, yhi) ==
    LET w == Max(xhi - xlo + 1, 0)
        h == Max(yhi - ylo + 1, 0)
    IN  [k \in 1..(w * h) |->
            [x |-> xlo + ((k - 1) % w), y |-> ylo + ((k - 1) \div w)]]

\* hrzn MatrixContainer(rect, obj), and MatrixContainer() whose storage is
\* null while its Area() is the single cell (0,0)
MatrixContainer(rect, obj) ==
    [kind |-> "MatrixContainer", area |-> rect,
     m_contents |-> NewArray(Area_area(rect), obj)]

MatrixContainer_default ==
    [kind |-> "MatrixContainer", area |-> Area(0, 0, 0, 0),
     m_contents |-> NewArray(0, Indet)]

MatrixContainer_at(g, x, y) ==
    ArrayRead(g, IMatrix_f_index(g.area, x, y))

MatrixContainer_set(g, x, y, val) ==
    ArrayWrite(g, IMatrix_f_index(g.area, x, y), val)

\* hrzn SubMatrix(area, mat): the area is taken as given; at and set are
\* forwarded to the source
SubMatrix(area, mat) ==
    [kind |-> "SubMatrix", area |-> area, m_source |-> mat]

SubMatrix_at(g, x, y) == MatrixContainer_at(g.m_source, x, y)

SubMatrix_set(g, x, y, val) ==
    LET r == MatrixContainer_set(g.m_source, x, y, val)
    IN  [g |-> [g EXCEPT !.m_source = r.g], ex |-> r.ex]

\* htl HMap(rect, obj)
HMap(rect, obj) ==
    [kind |-> "HMap", area |-> rect,
     m_contents |-> NewArray(hArea_area(rect), obj)]

HMap_at(g, x, y) == ArrayRead(g, IMap_f_index(g.area, x, y))

HMap_set(g, x, y, val) == ArrayWrite(g, IMap_f_index(g.area, x, y), val)

\* htl ISubMap(area, mat): the area is taken as given; at and set are
\* forwarded to the source
ISubMap(area, mat) ==
    [kind |-> "ISubMap", area |-> area, m_source |-> mat]

ISubMap_at(g, x, y) == HMap_at(g.m_source, x, y)

ISubMap_set(g, x, y, val) ==
    LET r == HMap_set(g.m_source, x, y, val)
    IN  [g |-> [g EXCEPT !.m_source = r.g], ex |-> r.ex]

\* htl MapContainer(rect, obj)
MapContainer(rect, obj) ==
    [kind |-> "MapContainer", area |-> rect,
     m_contents |-> NewArray(point_area_area(rect), obj)]

MapContainer_at(g, x, y) == ArrayRead(g, Map_f_index(g.area, x, y))

MapContainer_set(g, x, y, val) ==
    ArrayWrite(g, Map_f_index(g.area, x, y), val)

\* hrzn HMask: one bit per cell in 64-bit blocks; a block is modelled as the
\* set of its bit positions that are 1
s_bit_interval == 64

AllBits == 0..(s_bit_interval - 1)

HMask(area) ==
    LET m_size == (Area_area(area) \div s_bit_interval) + 1
    IN  [kind |-> "HMask", area |-> area, m_size |-> m_size,
         m_blocks |-> [i \in 0..(m_size - 1) |-> {}]]

HMask_f_get(g, x, y) ==
    LET index == IMatrix_f_index(g.area, x, y)
    IN  IF index.ex # "none" THEN index
        ELSE LET block_id == index.i \div s_bit_interval
                 offset == {index.i % s_bit_interval}
             IN  IF block_id \in DOMAIN g.m_blocks
                 THEN Got(IF (g.m_blocks[block_id] \cap offset) = offset
                          THEN 1 ELSE 0)
                 ELSE Undefined

HMask_at(g, x, y) == HMask_f_get(g, x, y)

HMask_set(g, x, y, val) ==
    LET index == IMatrix_f_index(g.area, x, y)
    IN  IF index.ex # "none" THEN [g |-> g, ex |-> index.ex]
        ELSE LET block_id == index.i \div s_bit_interval
                 offset == {index.i % s_bit_interval}
             IN  IF block_id \in DOMAIN g.m_blocks
                 THEN [g |-> [g EXCEPT !.m_blocks[block_id] =
                                 (@ \ offset) \cup
                                 (IF val = 1 THEN offset ELSE {})],
                       ex |-> "none"]
                 ELSE [g |-> g, ex |-> "undefined"]

\* a plausible slip: only the first block is written
HMask_fill_FirstBlock(g, obj) ==
    [g |-> [g EXCEPT !.m_blocks[0] = IF obj = 1 THEN AllBits ELSE {}],
     ex |-> "none"]

HMask_fill(g, obj) ==
    LET v == IF obj = 1 THEN AllBits ELSE {}
    IN  [g |-> [g EXCEPT !.m_blocks = [i \in 0..(g.m_size - 1) |-> v]],
         ex |-> "none"]

HMask_flip(g) ==
    [g EXCEPT !.m_blocks = [i \in 0..(g.m_size - 1) |-> AllBits \ g.m_blocks[i]]]

\* the virtual calls at(x, y), set(x, y, val) and the member contains(x, y)
Grid_at(g, x, y) ==
    CASE g.kind = "MatrixContainer" -> MatrixContainer_at(g, x, y)
      [] g.kind = "SubMatrix" -> SubMatrix_at(g, x, y)
      [] g.kind = "HMask" -> HMask_at(g, x, y)
      [] g.kind = "HMap" -> HMap_at(g, x, y)
      [] g.kind = "MapContainer" -> MapContainer_at(g, x, y)
      [] g.kind = "ISubMap" -> ISubMap_at(g, x, y)
      [] g.kind = "MapReference" -> MapContainer_at(g.m_source, x, y)

Grid_set(g, x, y, val) ==
    CASE g.kind = "MatrixContainer" -> MatrixContainer_set(g, x, y, val)
      [] g.kind = "SubMatrix" -> SubMatrix_set(g, x, y, val)
      [] g.kind = "HMask" -> HMask_set(g, x, y, val)
      [] g.kind = "HMap" -> HMap_set(g, x, y, val)
      [] g.kind = "MapContainer" -> MapContainer_set(g, x, y, val)
      [] g.kind = "ISubMap" -> ISubMap_set(g, x, y, val)
      [] g.kind = "MapReference" ->
            LET r == MapContainer_set(g.m_source, x, y, val)
            IN  [g |-> [g EXCEPT !.m_source = r.g], ex |-> r.ex]

\* "at(x, y) = val" through the mutable reference at returns.  A dense
\* grid returns its cell; HMask::at (hrzn/hrzn.h and htl/hrzn.h alike) copies
\* the bit into the member m_dummy and returns a reference to that, so val
\* lands in m_dummy, which every later at overwrites before reading
Grid_assign(g, x, y, val) ==
    IF g.kind = "HMask"
    THEN [g |-> g, ex |-> HMask_f_get(g, x, y).ex]
    ELSE Grid_set(g, x, y, val)

Grid_contains(g, x, y) ==
    IF g.kind \in {"MapContainer", "MapReference"}
    THEN point_area_contains(g.area, x, y)
    ELSE Area_contains(g.area, x, y)

\* "for each point: set(x, y, obj)" over the points lo..hi of the loop, in
\* order, stopping at the first call that does not return normally (the
\* range is evaluated in halves to keep the evaluation shallow)
RECURSIVE SetEach(_, _, _, _, _)
SetEach(g, pts, lo, hi, obj) ==
    IF lo > hi THEN [g |-> g, ex |-> "none"]
    ELSE IF lo = hi THEN Grid_set(g, pts[lo].x, pts[lo].y, obj)
    ELSE LET mid == (lo + hi) \div 2
             r == SetEach(g, pts, lo, mid, obj)
         IN  IF r.ex # "none" THEN r
             ELSE SetEach(r.g, pts, mid + 1, hi, obj)

\* IMatrix::fill (hrzn), IMap::fill (htl/hrzn.h): inclusive loops
IMatrix_fill(g, obj) ==
    LET pts == LoopPoints(g.area.x1, g.area.x2, g.area.y1, g.area.y2)
    IN  SetEach(g, pts, 1, Len(pts), obj)

IMap_fill(g, obj) ==
    LET pts == LoopPoints(g.area.x1, g.area.x2, g.area.y1, g.area.y2)
    IN  SetEach(g, pts, 1, Len(pts), obj)

\* Map::fill (htl/containers.h): loops up to but excluding x2 and y2
Map_fill(g, obj) ==
    LET pts == LoopPoints(g.area.x1, g.area.x2 - 1,
                          g.area.y1, g.area.y2 - 1)
    IN  SetEach(g, pts, 1, Len(pts), obj)

Grid_fill(g, obj) ==
    CASE g.kind = "HMask" -> HMask_fill(g, obj)
      [] g.kind \in {"HMap", "ISubMap"} -> IMap_fill(g, obj)
      [] g.kind = "MapContainer" -> Map_fill(g, obj)
      [] OTHER -> IMatrix_fill(g, obj)

(***************************************************************************)
(* SpecGrid: one grid of any variant, constructed and then driven by       *)
(* fill, set and at calls.                                                 *)
(***************************************************************************)
\* grid domains lie in the box of the columns 0..MaxG and the rows 0..1;
\* calls probe one cell further out on every side
MaxG == 1

GridCoords == 0..MaxG

GridRows == 0..1

ProbeCoords == (0 - 1)..(MaxG + 1)

ProbeRows == (0 - 1)..2

BoxAreas ==
    {Area(q[1], q[2], q[3], q[4]) :
        q \in {r \in GridCoords \X GridRows \X GridCoords \X GridRows :
                  r[1] <= r[3] /\ r[2] <= r[4]}}

BoxPointAreas ==
    {point_area(a.x1, a.y1, a.x2 + 1, a.y2 + 1) : a \in BoxAreas}

\* a mask wide enough to need a second 64-bit block
WideW == 13

WideH == 5

WideArea == Area(0, 0, WideW - 1, WideH - 1)

\* on the wide mask calls probe the cells around the block boundary, the
\* first and the last cell, and one point outside
WideProbes ==
    {[x |-> i % WideW, y |-> i \div WideW] :
        i \in {0, s_bit_interval - 1, s_bit_interval, WideW * WideH - 1}}
    \cup {[x |-> WideW, y |-> 0]}

Probes(g) ==
    IF g.kind = "HMask" /\ g.area = WideArea
    THEN WideProbes
    ELSE {[x |-> x, y |-> y] : x \in ProbeCoords, y \in ProbeRows}

\* the container a SubMatrix is created over
SourceArea == Area(0, 0, 1, 0)

InitGrids ==
    {MatrixContainer_default}
    \cup {MatrixContainer(a, v) : a \in BoxAreas, v \in Vals}
    \cup {HMap(a, v) : a \in BoxAreas, v \in Vals}
    \cup {MapContainer(a, v) : a \in BoxPointAreas, v \in Vals}
    \cup {HMask(a) : a \in BoxAreas \cup {WideArea}}
    \cup {SubMatrix(a, MatrixContainer(SourceArea, v)) :
             a \in BoxAreas, v \in Vals}

notGrid == <<rc, it, maskA, maskB, denseA, ff, ca>>

InitGrid ==
    /\ grid \in InitGrids
    /\ last = [op |-> "construct"]
    /\ rc = Idle /\ it = Idle /\ maskA = Idle /\ maskB = Idle
    /\ denseA = Idle /\ ff = Idle /\ ca = Idle

CallFill ==
    \E v \in Vals :
        LET r == Grid_fill(grid, v)
        IN  /\ grid' = r.g
            /\ last' = [op |-> "fill", v |-> v, ex |-> r.ex]
            /\ UNCHANGED notGrid

CallSet ==
    \E p \in Probes(grid), v \in Vals :
        LET r == Grid_set(grid, p.x, p.y, v)
        IN  /\ grid' = r.g
            /\ last' = [op |-> "set", x |-> p.x, y |-> p.y, v |-> v,
                        ex |-> r.ex]
            /\ UNCHANGED notGrid

CallAt ==
    \E p \in Probes(grid) :
        LET r == Grid_at(grid, p.x, p.y)
        IN  /\ last' = [op |-> "at", x |-> p.x, y |-> p.y, out |-> r,
                        ex |-> r.ex]
            /\ UNCHANGED grid
            /\ UNCHANGED notGrid

\* "if (map.at(x, y) == find) map.at(x, y) = replace;" for the points
\* lo..hi of pts, in order
RECURSIVE ReplaceEach(_, _, _, _, _, _)
ReplaceEach(g, pts, lo, hi, find, repl) ==
    IF lo > hi THEN [g |-> g, ex |-> "none"]
    ELSE IF lo = hi
    THEN LET r == Grid_at(g, pts[lo].x, pts[lo].y)
         IN  IF r.ex # "none" THEN [g |-> g, ex |-> r.ex]
             ELSE IF r.val = find
             THEN Grid_assign(g, pts[lo].x, pts[lo].y, repl)
             ELSE [g |-> g, ex |-> "none"]
    ELSE LET mid == (lo + hi) \div 2
             r == ReplaceEach(g, pts, lo, mid, find, repl)
         IN  IF r.ex # "none" THEN r
             ELSE ReplaceEach(r.g, pts, mid + 1, hi, find, repl)

\* replace(IMap<T>&, find, replace) of htl/utility.h: HRZN_FOREACH_POINT
\* visits y1 <= y < y2, x1 <= x < x2
htl_replace(g, find, repl) ==
    LET pts == LoopPoints(g.area.x1, g.area.x2 - 1, g.area.y1, g.area.y2 - 1)
    IN  ReplaceEach(g, pts, 1, Len(pts), find, repl)

\* replace(Map<T>&, find, replace) of htl/containers.h: every visited cell
\* is assigned, find is not looked at
Map_replace(g, find, repl) ==
    LET pts == LoopPoints(g.area.x1, g.area.x2 - 1, g.area.y1, g.area.y2 - 1)
    IN  SetEach(g, pts, 1, Len(pts), repl)

CallReplace ==
    /\ grid.kind \in {"HMap", "MapContainer"}
    /\ \E find \in Vals, repl \in Vals :
          \E r \in {IF grid.kind = "HMap" THEN htl_replace(grid, find, repl)
                    ELSE Map_replace(grid, find, repl)} :
             /\ grid' = r.g
             /\ last' = [op |-> "replace", find |-> find, repl |-> repl,
                         ex |-> r.ex]
    /\ UNCHANGED notGrid

NextGrid ==
    \/ CallFill
    \/ CallSet
    \/ CallAt
    \/ CallReplace

SpecGrid == InitGrid /\ [][NextGrid]_vars

\* the coordinates of a grid's domain
DomainOf(g) ==
    {p \in {[x |-> x, y |-> y] : x \in g.area.x1..g.area.x2,
                                 y \in g.area.y1..g.area.y2} :
        Grid_contains(g, p.x, p.y)}

DenseKinds == {"MatrixContainer", "HMap", "MapContainer"}

\* the storage behind the grid covers its whole domain: a container has
\* one allocated cell per coordinate, a view lies inside its source
StorageCoversDomain(g) ==
    CASE g.kind = "SubMatrix" ->
            \A p \in DomainOf(g) : Area_contains(g.m_source.area, p.x, p.y)
      [] g.kind = "HMask" -> TRUE
      [] OTHER -> Cardinality(DOMAIN g.m_contents) = Cardinality(DomainOf(g))

(***************************************************************************)
(* C1: for every grid variant (dense, bit-packed, view) and every value v, *)
(* after G.fill(v) the call has returned normally and G.at(x,y) == v for   *)
(* every coordinate (x,y) of G's domain.                                   *)
(***************************************************************************)
C1_FillSetsEveryCell ==
    last.op = "fill" =>
        /\ last.ex = "none"
        /\ \A p \in DomainOf(grid) : Grid_at(grid, p.x, p.y) = Got(last.v)

\* the same statement for the grids whose storage covers their domain
C1_FillSetsEveryStoredCell ==
    (last.op = "fill" /\ StorageCoversDomain(grid)) =>
        /\ last.ex = "none"
        /\ \A p \in DomainOf(grid) : Grid_at(grid, p.x, p.y) = Got(last.v)

(***************************************************************************)
(* C2: on a dense grid, at(x,y) or set(x,y,v) with (x,y) outside the       *)
(* grid's domain fails with an out-of-range error, and the failed call     *)
(* leaves the domain and every stored cell unchanged.                      *)
(***************************************************************************)
C2_OutOfDomainFailsUnchanged ==
    [][(/\ last'.op \in {"at", "set"}
        /\ grid.kind \in DenseKinds
        /\ ~Grid_contains(grid, last'.x, last'.y))
       => (last'.ex = "out_of_range" /\ grid' = grid)]_vars

C2_Witness ==
    /\ last.op = "set"
    /\ grid.kind \in DenseKinds
    /\ Cardinality(DomainOf(grid)) > 1
    /\ ~Grid_contains(grid, last.x, last.y)
    /\ last.x \in grid.area.x1..grid.area.x2
    /\ last.ex = "out_of_range"

(***************************************************************************)
(* Resizing a dense grid.                                                  *)
(***************************************************************************)
\* Area::resize and hArea::resize: both order the corners
Area_resize(x_1, y_1, x_2, y_2) ==
    [x1 |-> Min(x_1, x_2), y1 |-> Min(y_1, y_2),
     x2 |-> Max(x_1, x_2), y2 |-> Max(y_1, y_2)]

hArea_resize(x_1, y_1, x_2, y_2) ==
    [x1 |-> Min(x_1, x_2), y1 |-> Min(y_1, y_2),
     x2 |-> Max(x_1, x_2), y2 |-> Max(y_1, y_2)]

\* contains(x, y) ? m_contents[f_index(x, y)] : fill_obj -- a read outside
\* the old array yields an indeterminate value
ResizeCell(g, x, y, fill_obj) ==
    IF Area_contains(g.area, x, y)
    THEN LET r == Grid_at(g, x, y)
         IN  IF r.ex = "none" THEN r.val ELSE Indet
    ELSE fill_obj

\* the copy loop of resize over the points k.. of new_rect, writing
\* new_block
RECURSIVE ResizeCopy(_, _, _, _, _, _)
ResizeCopy(g, new_rect, w, k, new_block, fill_obj) ==
    LET pts == LoopPoints(new_rect.x1, new_rect.x2, new_rect.y1, new_rect.y2)
    IN  IF k > Len(pts) THEN [block |-> new_block, ex |-> "none"]
        ELSE LET i == (pts[k].x - new_rect.x1) + (pts[k].y - new_rect.y1) * w
             IN  IF i \in DOMAIN new_block
                 THEN ResizeCopy(g, new_rect, w, k + 1,
                         [new_block EXCEPT ![i] =
                             ResizeCell(g, pts[k].x, pts[k].y, fill_obj)],
                         fill_obj)
                 ELSE [block |-> new_block, ex |-> "undefined"]

\* a plausible slip: the old cells are copied by their index in the new
\* array instead of their index in the old one
MatrixContainer_resize_NewIndex(g, xa, ya, xb, yb, fill_obj) ==
    LET new_rect == Area(xa, ya, xb, yb)
    IN  [g |-> [g EXCEPT
                  !.m_contents =
                      [i \in 0..(Area_area(new_rect) - 1) |->
                          IF i \in DOMAIN g.m_contents
                          THEN g.m_contents[i] ELSE fill_obj],
                  !.area = new_rect],
         ex |-> "none"]

\* MatrixContainer::resize(xa, ya, xb, yb, fill_obj)
MatrixContainer_resize(g, xa, ya, xb, yb, fill_obj) ==
    LET new_rect == Area(xa, ya, xb, yb)
        r == ResizeCopy(g, new_rect, Area_width(new_rect), 1,
                        NewArray(Area_area(new_rect), Indet), fill_obj)
    IN  [g |-> [g EXCEPT
                  !.m_contents = r.block,
                  !.area = Area_resize(new_rect.x1, new_rect.y1,
                                       new_rect.x2, new_rect.y2)],
         ex |-> r.ex]

\* HMap::resize(xa, ya, xb, yb, fill_obj): new_rect keeps the corners in the
\* order given
HMap_resize(g, xa, ya, xb, yb, fill_obj) ==
    LET new_rect == hArea(xa, ya, xb, yb)
        r == ResizeCopy(g, new_rect, hArea_width(new_rect), 1,
                        NewArray(hArea_area(new_rect), Indet), fill_obj)
    IN  [g |-> [g EXCEPT
                  !.m_contents = r.block,
                  !.area = hArea_resize(new_rect.x1, new_rect.y1,
                                        new_rect.x2, new_rect.y2)],
         ex |-> r.ex]

(***************************************************************************)
(* SpecResize: a dense grid written by set calls and resized to            *)
(* rectangles of the box, the two corners given in either order.           *)
(***************************************************************************)
InitResize ==
    /\ grid \in {MatrixContainer(a, v) : a \in BoxAreas, v \in Vals}
                \cup {HMap(a, v) : a \in BoxAreas, v \in Vals}
    /\ last = [op |-> "construct"]
    /\ rc = Idle /\ it = Idle /\ maskA = Idle /\ maskB = Idle
    /\ denseA = Idle /\ ff = Idle /\ ca = Idle

CallMatrixContainerResize ==
    /\ grid.kind = "MatrixContainer"
    /\ \E xa \in GridCoords, ya \in GridRows,
          xb \in GridCoords, yb \in GridRows, f \in Vals :
          LET r == MatrixContainer_resize(grid, xa, ya, xb, yb, f)
          IN  /\ grid' = r.g
              /\ last' = [op |-> "resize", xa |-> xa, ya |-> ya,
                          xb |-> xb, yb |-> yb, f |-> f, ex |-> r.ex]
              /\ UNCHANGED notGrid

CallHMapResize ==
    /\ grid.kind = "HMap"
    /\ \E xa \in GridCoords, ya \in GridRows,
          xb \in GridCoords, yb \in GridRows, f \in Vals :
          LET r == HMap_resize(grid, xa, ya, xb, yb, f)
          IN  /\ grid' = r.g
              /\ last' = [op |-> "resize", xa |-> xa, ya |-> ya,
                          xb |-> xb, yb |-> yb, f |-> f, ex |-> r.ex]
              /\ UNCHANGED notGrid

NextResize ==
    \/ CallSet
    \/ CallMatrixContainerResize
    \/ CallHMapResize

SpecResize == InitResize /\ [][NextResize]_vars

\* the coordinates of the rectangle with corners (xa, ya) and (xb, yb)
RectPoints(xa, ya, xb, yb) ==
    {[x |-> x, y |-> y] : x \in Min(xa, xb)..Max(xa, xb),
                          y \in Min(ya, yb)..Max(ya, yb)}

\* what a resize step must establish: the domain is the new rectangle, old
\* cells keep their value, new cells hold f
ResizedCorrectly(old, new, call) ==
    /\ call.ex = "none"
    /\ DomainOf(new) = RectPoints(call.xa, call.ya, call.xb, call.yb)
    /\ \A p \in DomainOf(new) :
          Grid_at(new, p.x, p.y) =
              IF p \in DomainOf(old) THEN Grid_at(old, p.x, p.y)
                                     ELSE Got(call.f)

(***************************************************************************)
(* C4: after resizing a dense grid to a new rectangle R with fill value f, *)
(* the grid's domain is R, every coordinate in both the old domain and R   *)
(* holds the value it held before, and every coordinate of R outside the   *)
(* old domain holds f.                                                     *)
(***************************************************************************)
C4_ResizePreservesOverlap ==
    [][last'.op = "resize" => ResizedCorrectly(grid, grid', last')]_vars

\* the same statement for the hrzn MatrixContainer alone
C4_MatrixContainerResize ==
    [][(last'.op = "resize" /\ grid.kind = "MatrixContainer")
       => ResizedCorrectly(grid, grid', last')]_vars

\* the same statement for HMap when the corners are given in ascending
\* order and the storage covers the domain
C4_HMapResizeAscending ==
    [][(/\ last'.op = "resize" /\ grid.kind = "HMap"
        /\ StorageCoversDomain(grid)
        /\ last'.xa <= last'.xb /\ last'.ya <= last'.yb)
       => ResizedCorrectly(grid, grid', last')]_vars

(***************************************************************************)
(* Boolean operations on masks.                                            *)
(***************************************************************************)
\* "for each point: result.set(x, y, value)" over the points lo..hi of the
\* loop, in order, where vals[k] is what the evaluation of the value at the
\* k-th point yields; an exception raised while evaluating it ends the loop
\* before the set
RECURSIVE SetSeq(_, _, _, _, _)
SetSeq(result, pts, vals, lo, hi) ==
    IF lo > hi THEN [g |-> result, ex |-> "none"]
    ELSE IF lo = hi
    THEN IF vals[lo].ex # "none" THEN [g |-> result, ex |-> vals[lo].ex]
         ELSE Grid_set(result, pts[lo].x, pts[lo].y, vals[lo].val)
    ELSE LET mid == (lo + hi) \div 2
             r == SetSeq(result, pts, vals, lo, mid)
         IN  IF r.ex # "none" THEN r
             ELSE SetSeq(r.g, pts, vals, mid + 1, hi)

\* HMask::expand: a MatrixContainer over the same area, every cell set to
\* the mask's value
HMask_expand(m) ==
    LET obj == [kind |-> "MatrixContainer", area |-> m.area,
                m_contents |-> NewArray(Area_area(m.area), Indet)]
        pts == LoopPoints(obj.area.x1, obj.area.x2, obj.area.y1, obj.area.y2)
    IN  SetSeq(obj, pts,
               [k \in 1..Len(pts) |-> HMask_at(m, pts[k].x, pts[k].y)],
               1, Len(pts))

\* a.at(x, y) && b.at(x, y): b is not read when a is false
AndVal(ra, rb) ==
    IF ra.ex # "none" THEN ra
    ELSE IF ra.val = 0 THEN Got(0)
    ELSE IF rb.ex # "none" THEN rb
    ELSE IF ra.val = Indet \/ rb.val = Indet THEN Got(Indet)
    ELSE Got(rb.val)

\* !a.at(x, y)
NotVal(ra) ==
    IF ra.ex # "none" THEN ra
    ELSE IF ra.val = Indet THEN Got(Indet)
    ELSE Got(1 - ra.val)

\* THROW_NOT_IMPLEMENTED: std::runtime_error
NotImplemented == [g |-> Idle, ex |-> "not_implemented"]

\* HMask::AND(a, b): the first statement throws
HMask_AND(a, b) == NotImplemented

\* HMask operator & (const IMatrix<bool>&, const IMatrix<bool>&)
operator_and(a, b) ==
    LET result == HMask(Area_intersect(a.area, b.area))
        pts == LoopPoints(result.area.x1, result.area.x2,
                          result.area.y1, result.area.y2)
    IN  SetSeq(result, pts,
               [k \in 1..Len(pts) |->
                   AndVal(Grid_at(a, pts[k].x, pts[k].y),
                          Grid_at(b, pts[k].x, pts[k].y))],
               1, Len(pts))

\* intersect(point_area, point_area)
point_area_intersect(a, b) ==
    point_area(Max(a.x1, b.x1), Max(a.y1, b.y1),
               Min(a.x2, b.x2), Min(a.y2, b.y2))

\* a plausible slip: the loops of the operator run up to and including x2, y2
Map_operator_and_Inclusive(a, b) ==
    LET rect == point_area_intersect(a.area, b.area)
        result == [kind |-> "MapContainer", area |-> rect,
                   m_contents |-> NewArray(point_area_area(rect), Indet)]
        pts == LoopPoints(rect.x1, rect.x2, rect.y1, rect.y2)
    IN  SetSeq(result, pts,
               [k \in 1..Len(pts) |->
                   AndVal(Grid_at(a, pts[k].x, pts[k].y),
                          Grid_at(b, pts[k].x, pts[k].y))],
               1, Len(pts))

\* MapContainer<bool> operator & (const Map<bool>&, const Map<bool>&)
Map_operator_and(a, b) ==
    LET rect == point_area_intersect(a.area, b.area)
        result == [kind |-> "MapContainer", area |-> rect,
                   m_contents |-> NewArray(point_area_area(rect), Indet)]
        pts == LoopPoints(rect.x1, rect.x2 - 1, rect.y1, rect.y2 - 1)
    IN  SetSeq(result, pts,
               [k \in 1..Len(pts) |->
                   AndVal(Grid_at(a, pts[k].x, pts[k].y),
                          Grid_at(b, pts[k].x, pts[k].y))],
               1, Len(pts))

\* a plausible slip: the copy is flipped with logical not instead of bitwise
\* complement, which leaves 1 in an empty block and 0 in any other
HMask_NOT_LogicalNot(a) ==
    [a EXCEPT !.m_blocks = [i \in 0..(a.m_size - 1) |->
                               IF a.m_blocks[i] = {} THEN {0} ELSE {}]]

\* HMask::NOT(a): a copy of a, flipped
HMask_NOT(a) == HMask_flip(a)

\* HMask operator ~ (const IMatrix<bool>&)
operator_not(a) ==
    LET result == HMask(a.area)
        pts == LoopPoints(a.area.x1, a.area.x2, a.area.y1, a.area.y2)
    IN  SetSeq(result, pts,
               [k \in 1..Len(pts) |-> NotVal(Grid_at(a, pts[k].x, pts[k].y))],
               1, Len(pts))

(***************************************************************************)
(* SpecMask: a bit-packed mask maskA and a dense boolean grid denseA over  *)
(* the same area receive the same set and fill calls; the boolean          *)
(* operations are applied to maskA and a second mask maskB over that area. *)
(***************************************************************************)
\* the mask over area a whose cells listed in pts are true
MaskOf(a, pts) == SetEach(HMask(a), pts, 1, Len(pts), 1).g

\* the second operand: all false, all true, a checkerboard, or only the
\* first cell true
OperandsOver(a) ==
    LET pts == LoopPoints(a.x1, a.x2, a.y1, a.y2)
        even(p) == (p.x + p.y) % 2 = 0
    IN  {MaskOf(a, <<>>), MaskOf(a, pts), MaskOf(a, SelectSeq(pts, even)),
         MaskOf(a, <<pts[1]>>)}

\* the htl MapContainer<bool> holding the cells of mask m
AsMapContainer(m) ==
    [kind |-> "MapContainer",
     area |-> point_area(m.area.x1, m.area.y1, m.area.x2 + 1, m.area.y2 + 1),
     m_contents |-> HMask_expand(m).g.m_contents]

notMask == <<rc, it, grid, ff, ca>>

InitMask ==
    /\ \E a \in BoxAreas \cup {WideArea} :
          /\ maskA = HMask(a)
          /\ denseA = MatrixContainer(a, 0)
          /\ maskB \in OperandsOver(a)
    /\ last = [op |-> "construct"]
    /\ rc = Idle /\ it = Idle /\ grid = Idle /\ ff = Idle /\ ca = Idle

MaskSet ==
    \E p \in Probes(maskA), v \in Vals :
        \E rm \in {HMask_set(maskA, p.x, p.y, v)},
           rd \in {MatrixContainer_set(denseA, p.x, p.y, v)} :
            /\ maskA' = rm.g
            /\ denseA' = rd.g
            /\ last' = [op |-> "set", x |-> p.x, y |-> p.y, v |-> v,
                        ex |-> rm.ex, exDense |-> rd.ex]
            /\ UNCHANGED <<maskB, notMask>>

MaskFill ==
    \E v \in Vals :
        \E rm \in {HMask_fill(maskA, v)}, rd \in {IMatrix_fill(denseA, v)} :
            /\ maskA' = rm.g
            /\ denseA' = rd.g
            /\ last' = [op |-> "fill", v |-> v,
                        ex |-> rm.ex, exDense |-> rd.ex]
            /\ UNCHANGED <<maskB, notMask>>

CallHMaskAND ==
    \E r \in {HMask_AND(maskA, maskB)} :
        /\ last' = [op |-> "HMask::AND", out |-> r.g, ex |-> r.ex]
        /\ UNCHANGED <<maskA, maskB, denseA, notMask>>

CallOperatorAnd ==
    \E a \in {maskA, denseA} :
        \E r \in {operator_and(a, maskB)} :
            /\ last' = [op |-> "operator&", out |-> r.g, ex |-> r.ex]
            /\ UNCHANGED <<maskA, maskB, denseA, notMask>>

CallMapOperatorAnd ==
    \E a \in {AsMapContainer(maskA)}, b \in {AsMapContainer(maskB)} :
        \E r \in {Map_operator_and(a, b)} :
            /\ last' = [op |-> "Map operator&", out |-> r.g, ex |-> r.ex]
            /\ UNCHANGED <<maskA, maskB, denseA, notMask>>

CallHMaskNOT ==
    \E v \in {HMask_NOT(maskA)} :
        /\ last' = [op |-> "HMask::NOT", out |-> HMask_NOT(v), ex |-> "none"]
        /\ UNCHANGED <<maskA, maskB, denseA, notMask>>

CallOperatorNot ==
    \E a \in {maskA, denseA} :
        \E r1 \in {operator_not(a)} :
            \E r2 \in {IF r1.ex = "none" THEN operator_not(r1.g) ELSE r1} :
                /\ last' = [op |-> "operator~", out |-> r2.g, ex |-> r2.ex]
                /\ UNCHANGED <<maskA, maskB, denseA, notMask>>

NextMask ==
    \/ MaskSet
    \/ MaskFill
    \/ CallHMaskAND
    \/ CallOperatorAnd
    \/ CallMapOperatorAnd
    \/ CallHMaskNOT
    \/ CallOperatorNot

SpecMask == InitMask /\ [][NextMask]_vars

\* grids g and h have the same domain and the same value at every coordinate
SameCells(g, h) ==
    /\ DomainOf(g) = DomainOf(h)
    /\ \A p \in DomainOf(h) : Grid_at(g, p.x, p.y) = Grid_at(h, p.x, p.y)

(***************************************************************************)
(* C5: after the same sequence of set(x,y,v) and fill(v) calls on a        *)
(* bit-packed boolean grid and on a dense boolean grid over the same       *)
(* domain, at(x,y) of the two agrees for every coordinate of the domain,   *)
(* and expand() of the bit-packed grid equals the dense grid.              *)
(***************************************************************************)
C5_MaskAgreesWithDense ==
    /\ SameCells(maskA, denseA)
    /\ \A p \in DomainOf(maskA) : Grid_at(maskA, p.x, p.y).ex = "none"
    /\ HMask_expand(maskA) = [g |-> denseA, ex |-> "none"]
    /\ last.op \in {"set", "fill"} => last.ex = last.exDense

C5_Witness ==
    /\ maskA.area = WideArea
    /\ last.op = "set" /\ last.ex = "none" /\ last.v = 0
    /\ IMatrix_f_index(maskA.area, last.x, last.y) = Index(s_bit_interval)
    /\ Grid_at(maskA, 0, 0) = Got(1)
    /\ \E p \in DomainOf(maskA) :
          /\ IMatrix_f_index(maskA.area, p.x, p.y) = Index(s_bit_interval - 1)
          /\ Grid_at(maskA, p.x, p.y) = Got(1)
          /\ Grid_at(denseA, p.x, p.y) = Got(1)

\* a && b on cell values
BoolAnd(a, b) == IF a = 1 /\ b = 1 THEN 1 ELSE 0

\* the result of the last call is a grid over maskA's domain holding the
\* conjunction of maskA and maskB at every coordinate
AndComputed ==
    /\ last.ex = "none"
    /\ DomainOf(last.out) = DomainOf(maskA)
    /\ \A p \in DomainOf(maskA) :
          Grid_at(last.out, p.x, p.y) =
              Got(BoolAnd(Grid_at(maskA, p.x, p.y).val,
                          Grid_at(maskB, p.x, p.y).val))

(***************************************************************************)
(* C6: for boolean grids A and B over the same domain, AND(A,B) -- the     *)
(* HMask::AND operation and the binary & operator -- returns a grid G over *)
(* that domain with G.at(p) == (A.at(p) && B.at(p)) for every p of the     *)
(* domain.                                                                 *)
(***************************************************************************)
C6_AndIsCellwise ==
    last.op \in {"HMask::AND", "operator&", "Map operator&"} => AndComputed

\* the same statement for the two & operators alone
C6_OperatorAndIsCellwise ==
    last.op \in {"operator&", "Map operator&"} => AndComputed

(***************************************************************************)
(* C7: for every boolean grid A, NOT(NOT(A)) has A's domain and            *)
(* NOT(NOT(A)).at(p) == A.at(p) for every p of the domain, for the         *)
(* word-wise HMask::NOT (flip) and for the cell-wise ~ operator.           *)
(***************************************************************************)
C7_DoubleNotIsIdentity ==
    last.op \in {"HMask::NOT", "operator~"} =>
        /\ last.ex = "none"
        /\ last.out.area = maskA.area
        /\ SameCells(last.out, maskA)

C7_Witness ==
    /\ last.op = "HMask::NOT"
    /\ maskA.area = WideArea
    /\ Grid_at(maskA, 0, 0) = Got(0)
    /\ Grid_at(maskA, WideW - 1, WideH - 1) = Got(1)
    /\ Grid_at(last.out, WideW - 1, WideH - 1) = Got(1)

(***************************************************************************)
(* Flood fill.  The recursion of floodFillArea (hrzn) and floodFill (htl)  *)
(* is modelled with an explicit call stack: a frame holds the cell the     *)
(* call was made for and the index of the neighbour its loop is at; -1     *)
(* stands for a call that has not yet marked its cell.                     *)
(***************************************************************************)
\* a plausible slip: the fourth offset repeats the third, so that no step
\* goes to the left
neighborhood4_NoLeft ==
    <<[x |-> 0, y |-> 0 - 1], [x |-> 1, y |-> 0], [x |-> 0, y |-> 1],
      [x |-> 0, y |-> 1], [x |-> 0, y |-> 0]>>

\* neighborhood4 and neighborhood8 (hrzn/utility.h), h_neighborhood4 and
\* h_neighborhood8 (htl/basic_types.h) hold the same offsets
neighborhood4 ==
    <<[x |-> 0, y |-> 0 - 1], [x |-> 1, y |-> 0], [x |-> 0, y |-> 1],
      [x |-> 0 - 1, y |-> 0], [x |-> 0, y |-> 0]>>

neighborhood8 ==
    <<[x |-> 0, y |-> 0 - 1], [x |-> 1, y |-> 0 - 1], [x |-> 1, y |-> 0],
      [x |-> 1, y |-> 1], [x |-> 0, y |-> 1], [x |-> 0 - 1, y |-> 1],
      [x |-> 0 - 1, y |-> 0], [x |-> 0 - 1, y |-> 0 - 1],
      [x |-> 0, y |-> 0]>>

\* operator +(ITuple, ITuple)
ITuple_add(a, b) == [x |-> a.x + b.x, y |-> a.y + b.y]

\* hrzn::intersect(Area, Area) of hrzn/utility.h
utility_intersect(a, b) ==
    Area(Max(a.x1, b.x1), Max(a.y1, b.y1), Min(a.x2, b.x2), Min(a.y2, b.y2))

\* hrzn::intersect(hArea, hArea), which htl/utility.h calls: not among the
\* sources, taken to be hArea::intersect
htl_utility_intersect(a, b) == hArea_intersect(a, b)

notFlood == <<rc, it, grid, last, maskA, maskB, denseA, ca>>

\* "hArea area = intersect(region, result)" of the running call
FloodArea ==
    IF ff.fn = "floodFillArea"
    THEN utility_intersect(ff.region.area, ff.result.area)
    ELSE htl_utility_intersect(ff.region.area, ff.result.area)

FloodTop == ff.stack[Len(ff.stack)]

\* use8 ? 8 : 4, and the table the loop indexes
FloodCount == IF ff.use8 THEN 8 ELSE 4

FloodOffsets == IF ff.use8 THEN neighborhood8 ELSE neighborhood4

\* the first statement of a call: result.set(start, true)
FloodEnter ==
    /\ ff.ex = "none" /\ ff.stack # <<>>
    /\ FloodTop.i = 0 - 1
    /\ \E r \in {Grid_set(ff.result, FloodTop.start.x, FloodTop.start.y, 1)} :
          ff' = IF r.ex = "none"
                THEN [ff EXCEPT !.result = r.g, !.stack[Len(ff.stack)].i = 0]
                ELSE [ff EXCEPT !.ex = r.ex]
    /\ UNCHANGED notFlood

\* one iteration of the loop over the neighbours: an unmarked neighbour
\* inside the area that holds the value of the call's cell is entered by a
\* recursive call, after which the loop goes on; one that holds another
\* value is, when edge, handed to result.set.  floodFill's statement is
\* "result.set(pos, true)"; floodFillArea's is "result->set(pos.x, true)",
\* for which IMatrix<bool> has no overload (set takes an hPoint or x and y,
\* and ITuple(T) is explicit): the call has no meaning, "ill_formed"
FloodNeighbour ==
    /\ ff.ex = "none" /\ ff.stack # <<>>
    /\ FloodTop.i >= 0 /\ FloodTop.i < FloodCount
    /\ LET top == Len(ff.stack)
           start == FloodTop.start
           pos == ITuple_add(start, FloodOffsets[FloodTop.i + 1])
           next == [ff.stack EXCEPT ![top].i = @ + 1]
       IN  IF /\ Area_contains(FloodArea, pos.x, pos.y)
              /\ Grid_at(ff.result, pos.x, pos.y) # Got(1)
           THEN LET rp == Grid_at(ff.region, pos.x, pos.y)
                    rs == Grid_at(ff.region, start.x, start.y)
                IN  IF rp.ex # "none" THEN ff' = [ff EXCEPT !.ex = rp.ex]
                    ELSE IF rs.ex # "none" THEN ff' = [ff EXCEPT !.ex = rs.ex]
                    ELSE IF rp.val = rs.val
                    THEN ff' = [ff EXCEPT !.stack =
                                   Append(next, [start |-> pos, i |-> 0 - 1])]
                    ELSE IF ~ff.edge THEN ff' = [ff EXCEPT !.stack = next]
                    ELSE IF ff.fn = "floodFillArea"
                    THEN ff' = [ff EXCEPT !.ex = "ill_formed"]
                    ELSE \E r \in {Grid_set(ff.result, pos.x, pos.y, 1)} :
                            ff' = IF r.ex = "none"
                                  THEN [ff EXCEPT !.result = r.g,
                                                  !.stack = next]
                                  ELSE [ff EXCEPT !.ex = r.ex]
           ELSE ff' = [ff EXCEPT !.stack = next]
    /\ UNCHANGED notFlood

\* the loop is over: the call returns to its caller
FloodReturn ==
    /\ ff.ex = "none" /\ ff.stack # <<>>
    /\ FloodTop.i = FloodCount
    /\ ff' = [ff EXCEPT !.stack = SubSeq(ff.stack, 1, Len(ff.stack) - 1)]
    /\ UNCHANGED notFlood

(***************************************************************************)
(* SpecFlood: one call of floodFillArea (a MatrixContainer<int> region,    *)
(* an HMask result) or of floodFill (an HMap<int> region, an HMap<bool>    *)
(* result), with edge = false, on a result that is all false.  The region  *)
(* holds 0 except on a set of cells that hold 1.                           *)
(***************************************************************************)
FloodW == 3
FloodH == 3

FloodRegionArea == Area(0, 0, FloodW - 1, FloodH - 1)

\* the result covers the region, or is the region's rectangle moved one
\* column to the right
FloodResultAreas == {FloodRegionArea, Area(1, 0, FloodW, FloodH - 1)}

AreaPoints(a) == LoopPoints(a.x1, a.x2, a.y1, a.y2)

PointSet(a) == {AreaPoints(a)[k] : k \in 1..Len(AreaPoints(a))}

\* where the region holds 1: nowhere, one cell, a checkerboard, the second
\* column, the diagonal
FloodPatterns(a) ==
    {{}} \cup {{p} : p \in PointSet(a)}
         \cup {{p \in PointSet(a) : (p.x + p.y) % 2 = 1},
               {p \in PointSet(a) : p.x = a.x1 + 1},
               {p \in PointSet(a) : p.x - a.x1 = p.y - a.y1}}

\* the 5x5 grid of the documentation: uniform, or with (2, 3) differing
ExampleArea == Area(0, 0, 4, 4)

ExamplePatterns == {{}, {[x |-> 2, y |-> 3]}}

FloodRegion(fn, a, ones) ==
    SetEach(IF fn = "floodFillArea" THEN MatrixContainer(a, 0) ELSE HMap(a, 0),
            SelectSeq(AreaPoints(a), LAMBDA p : p \in ones),
            1, Cardinality(ones), 1).g

FloodResult(fn, a) == IF fn = "floodFillArea" THEN HMask(a) ELSE HMap(a, 0)

FloodCall(fn, region, result, seed, edge, use8) ==
    [fn |-> fn, region |-> region, result |-> result, edge |-> edge,
     use8 |-> use8, seed |-> seed, stack |-> <<[start |-> seed, i |-> 0 - 1]>>,
     ex |-> "none"]

InitFlood ==
    /\ rc = Idle /\ it = Idle /\ grid = Idle /\ last = Idle
    /\ maskA = Idle /\ maskB = Idle /\ denseA = Idle /\ ca = Idle
    /\ \E fn \in {"floodFillArea", "floodFill"} :
          \/ \E ones \in FloodPatterns(FloodRegionArea),
                ra \in FloodResultAreas, use8 \in BOOLEAN :
                \E seed \in PointSet(FloodRegionArea) \cup PointSet(ra) :
                   ff = FloodCall(fn, FloodRegion(fn, FloodRegionArea, ones),
                                  FloodResult(fn, ra), seed, FALSE, use8)
          \/ \E ones \in ExamplePatterns :
                ff = FloodCall(fn, FloodRegion(fn, ExampleArea, ones),
                               FloodResult(fn, ExampleArea),
                               [x |-> 2, y |-> 2], FALSE, FALSE)

NextFlood == FloodEnter \/ FloodNeighbour \/ FloodReturn

SpecFlood == InitFlood /\ [][NextFlood]_vars

FloodDone == ff.stack = <<>> /\ ff.ex = "none"

\* the result cells that are true
Marked ==
    {p \in DomainOf(ff.result) : Grid_at(ff.result, p.x, p.y) = Got(1)}

Abs(n) == IF n < 0 THEN 0 - n ELSE n

\* one 4-neighbour step, or one 8-neighbour step when use8
Adjacent(p, q) ==
    IF ff.use8
    THEN Max(Abs(p.x - q.x), Abs(p.y - q.y)) = 1
    ELSE Abs(p.x - q.x) + Abs(p.y - q.y) = 1

\* the cells of intersect(region, result) that hold the seed's region value
SeedValued ==
    {p \in PointSet(FloodArea) :
        Grid_at(ff.region, p.x, p.y) = Grid_at(ff.region, ff.seed.x, ff.seed.y)}

RECURSIVE Reach(_)
Reach(S) ==
    LET more == {q \in SeedValued \ S : \E p \in S : Adjacent(p, q)}
    IN  IF more = {} THEN S ELSE Reach(S \cup more)

InitEdge ==
    /\ rc = Idle /\ it = Idle /\ grid = Idle /\ last = Idle
    /\ maskA = Idle /\ maskB = Idle /\ denseA = Idle /\ ca = Idle
    /\ \E fn \in {"floodFillArea", "floodFill"},
          ones \in FloodPatterns(FloodRegionArea),
          ra \in FloodResultAreas, use8 \in BOOLEAN :
          \E seed \in PointSet(FloodRegionArea) \cup PointSet(ra) :
             ff = FloodCall(fn, FloodRegion(fn, FloodRegionArea, ones),
                            FloodResult(fn, ra), seed, TRUE, use8)

SpecEdge == InitEdge /\ [][NextFlood]_vars

\* the cells of the intersection that hold another value than the seed's
\* and are a neighbour of a cell of the seed's region
EdgeCells ==
    {q \in PointSet(FloodArea) \ SeedValued :
        \E p \in Reach({ff.seed}) : Adjacent(p, q)}

EdgeFillCorrect ==
    /\ ff.ex = "none"
    /\ Marked \subseteq PointSet(FloodArea)
    /\ FloodDone => Marked = Reach({ff.seed}) \cup EdgeCells

\* C16: floodFill from a seed of intersect(region, result), with edge =
\* true and a result that starts all false, ends without an error having
\* set to true exactly the seed's region (C8) and the cells of the
\* intersection with another region value that neighbour a cell of it; it
\* never sets a cell outside the intersection.
C16_EdgeFillMarksRegionAndBorder ==
    Area_contains(FloodArea, ff.seed.x, ff.seed.y) => EdgeFillCorrect

\* C16, of floodFill (htl/utility.h) alone
C16_HtlEdgeFill ==
    (ff.fn = "floodFill" /\ Area_contains(FloodArea, ff.seed.x, ff.seed.y))
        => EdgeFillCorrect

\* C16: floodFillArea (hrzn/utility.h) with edge = true completes only when
\* no cell of another value neighbours the seed's region inside the
\* intersection
C16_HrznEdgeFillHasNoBorder ==
    (ff.fn = "floodFillArea" /\ FloodDone) => EdgeCells = {}

(***************************************************************************)
(* Cellular automaton step.                                                *)
(***************************************************************************)
\* 2^64 modulo w, computed without leaving 32 bits (w is small)
TwoTo64Mod(w) ==
    LET a == 65536 % w
        b == (a * a) % w
    IN  (b * b) % w

\* "(p % w + w) % w" where w is a std::size_t: the int p is converted to
\* 64-bit unsigned first, so a negative p counts as 2^64 + p
SizeMod(p, w) ==
    LET first == IF p >= 0 THEN p % w ELSE (TwoTo64Mod(w) + (p % w)) % w
    IN  (first + w) % w

\* hrzn/utility.h: the function named wrapPoint limits the point to the
\* area, the function named clampPoint reduces it modulo the size
utility_wrapPoint(p, area) ==
    [x |-> Min(Max(p.x, area.x1), area.x2),
     y |-> Min(Max(p.y, area.y1), area.y2)]

utility_clampPoint(p, area) ==
    [x |-> SizeMod(p.x, Area_width(area)),
     y |-> SizeMod(p.y, Area_height(area))]

\* htl/utility.h
htl_clampPoint(p, area) ==
    [x |-> Min(Max(p.x, area.x1), area.x2 - 1),
     y |-> Min(Max(p.y, area.y1), area.y2 - 1)]

htl_wrapPoint(p, area) ==
    [x |-> SizeMod(p.x, hArea_width(area)),
     y |-> SizeMod(p.y, hArea_height(area))]

\* the position read for the neighbour of cell at offset dir
NeighbourPos(fn, wrap_position, cell, dir, area) ==
    IF fn = "hrzn"
    THEN IF wrap_position THEN utility_wrapPoint(ITuple_add(cell, dir), area)
         ELSE utility_clampPoint(ITuple_add(cell, dir), area)
    ELSE IF wrap_position THEN htl_wrapPoint(ITuple_add(cell, dir), area)
         ELSE htl_clampPoint(ITuple_add(cell, dir), area)

\* the inner loop "for (dir : neighborhood8) if (mask->at(pos)) ++n_count"
\* over all nine entries of the table: the count, or the exception of the
\* first read that fails
CountNeighbours(fn, mask, wrap_position, cell) ==
    LET reads == [d \in 1..Len(neighborhood8) |->
                    LET pos == NeighbourPos(fn, wrap_position, cell,
                                            neighborhood8[d], mask.area)
                    IN  Grid_at(mask, pos.x, pos.y)]
    IN  IF \E d \in 1..Len(neighborhood8) : reads[d].ex # "none"
        THEN [ex |-> reads[CHOOSE d \in 1..Len(neighborhood8) :
                              /\ reads[d].ex # "none"
                              /\ \A e \in 1..(d - 1) : reads[e].ex = "none"].ex,
              n |-> 0]
        ELSE [ex |-> "none",
              n |-> Cardinality({d \in 1..Len(neighborhood8) :
                                    reads[d].val = 1})]

\* the cells both loops of the running call visit, in order: region() of
\* the mask in hrzn, "y < y2, x < x2" in htl
CACells ==
    IF ca.fn = "hrzn" THEN AreaPoints(ca.mask.area)
    ELSE LoopPoints(ca.mask.area.x1, ca.mask.area.x2 - 1,
                    ca.mask.area.y1, ca.mask.area.y2 - 1)

\* where the call stands after the k-th cell of a pass
CAAfter(pc, k, n) ==
    IF k < n THEN [pc |-> pc, k |-> k + 1]
    ELSE IF pc = "count" /\ n > 0 THEN [pc |-> "apply", k |-> 1]
    ELSE [pc |-> "done", k |-> 0]

notCA == <<rc, it, grid, last, maskA, maskB, denseA, ff>>

\* first pass, one cell: count, then neighbor_counts.set(cell, n_count)
CACount ==
    /\ ca.ex = "none" /\ ca.pc = "count"
    /\ LET cell == CACells[ca.k]
           c == CountNeighbours(ca.fn, ca.mask, ca.wrap_position, cell)
           w == Grid_set(ca.neighbor_counts, cell.x, cell.y, c.n)
           to == CAAfter("count", ca.k, Len(CACells))
       IN  ca' = IF c.ex # "none" THEN [ca EXCEPT !.ex = c.ex]
                 ELSE IF w.ex # "none" THEN [ca EXCEPT !.ex = w.ex]
                 ELSE [ca EXCEPT !.neighbor_counts = w.g,
                                 !.pc = to.pc, !.k = to.k]
    /\ UNCHANGED notCA

\* second pass, one cell: mask->set(cell, neighbor_counts.at(cell) >=
\* birth_rate)
CAApply ==
    /\ ca.ex = "none" /\ ca.pc = "apply"
    /\ LET cell == CACells[ca.k]
           c == Grid_at(ca.neighbor_counts, cell.x, cell.y)
           w == Grid_set(ca.mask, cell.x, cell.y,
                         IF c.val >= ca.birth_rate THEN 1 ELSE 0)
           to == CAAfter("apply", ca.k, Len(CACells))
       IN  ca' = IF c.ex # "none" THEN [ca EXCEPT !.ex = c.ex]
                 ELSE IF w.ex # "none" THEN [ca EXCEPT !.ex = w.ex]
                 ELSE [ca EXCEPT !.mask = w.g, !.pc = to.pc, !.k = to.k]
    /\ UNCHANGED notCA

(***************************************************************************)
(* SpecCA: one call of cellularAutomata, of hrzn on an HMask or of htl on  *)
(* an HMap<bool>, over a CAW x CAH domain at (0, 0) or at (1, 1), from a   *)
(* grid with at most two live or at most two dead cells.                   *)
(***************************************************************************)
CAW == 3
CAH == 3
MaxBirth == 4

CAAreas == {Area(o, o, o + CAW - 1, o + CAH - 1) : o \in {0, 1}}

CAPatterns(a) ==
    {live \in SUBSET PointSet(a) :
        \/ Cardinality(live) <= 2
        \/ Cardinality(PointSet(a) \ live) <= 2}

CAMask(fn, a, live) ==
    SetEach(IF fn = "hrzn" THEN HMask(a) ELSE HMap(a, 0),
            SelectSeq(AreaPoints(a), LAMBDA p : p \in live),
            1, Cardinality(live), 1).g

\* the call's entry: neighbor_counts is built over the mask's area, all 0
CACall(fn, mask, birth_rate, wrap_position) ==
    LET n == IF fn = "hrzn" THEN Area_area(mask.area)
             ELSE Max(mask.area.x2 - mask.area.x1, 0)
                    * Max(mask.area.y2 - mask.area.y1, 0)
    IN  [fn |-> fn, mask |-> mask, pre |-> mask,
         neighbor_counts |-> IF fn = "hrzn" THEN MatrixContainer(mask.area, 0)
                             ELSE HMap(mask.area, 0),
         birth_rate |-> birth_rate, wrap_position |-> wrap_position,
         pc |-> IF n > 0 THEN "count" ELSE "done",
         k |-> IF n > 0 THEN 1 ELSE 0, ex |-> "none"]

InitCA ==
    /\ rc = Idle /\ it = Idle /\ grid = Idle /\ last = Idle
    /\ maskA = Idle /\ maskB = Idle /\ denseA = Idle /\ ff = Idle
    /\ \E fn \in {"hrzn", "htl"}, a \in CAAreas,
          birth_rate \in 0..MaxBirth, wrap_position \in BOOLEAN :
          \E live \in CAPatterns(a) :
             ca = CACall(fn, CAMask(fn, a, live), birth_rate, wrap_position)

NextCA == CACount \/ CAApply

SpecCA == InitCA /\ [][NextCA]_vars

\* the call has returned, or has been left by an exception
CAEnded == ca.pc = "done" \/ ca.ex # "none"

\* the cells for which the finished step left live iff the count taken on
\* the grid as it was before the step is >= birth_rate
CACorrectCells ==
    {p \in DomainOf(ca.pre) :
        LET c == CountNeighbours(ca.fn, ca.pre, ca.wrap_position, p)
        IN  /\ c.ex = "none"
            /\ Grid_at(ca.mask, p.x, p.y)
                  = Got(IF c.n >= ca.birth_rate THEN 1 ELSE 0)}

\* C9: when one cellularAutomata step has returned, every cell of the grid
\* is live iff its live-neighbour count, taken on the grid as it was before
\* the step, is >= birth_rate.
C9_StepAppliesPreStepCounts ==
    (ca.pc = "done" /\ ca.ex = "none") =>
        CACorrectCells = DomainOf(ca.pre)

\* C9, the same of every way a step can end: no step is left by an
\* exception either.
C9_StepEndsWithPreStepCounts ==
    CAEnded => CACorrectCells = DomainOf(ca.pre)

\* C9, hrzn only: a step of hrzn's cellularAutomata that returns has left
\* every cell live iff its pre-step count is >= birth_rate.
C9_HrznStepThatReturns ==
    (ca.fn = "hrzn" /\ ca.pc = "done" /\ ca.ex = "none") =>
        CACorrectCells = DomainOf(ca.pre)

\* C9, htl only: a step of htl's cellularAutomata that returns has decided
\* the cells with x < x2 and y < y2 by their pre-step counts and has left
\* the last column and the last row as they were.
C9_HtlStepSkipsLastRowAndColumn ==
    (ca.fn = "htl" /\ ca.pc = "done" /\ ca.ex = "none") =>
        \A p \in DomainOf(ca.pre) :
            IF p.x < ca.pre.area.x2 /\ p.y < ca.pre.area.y2
            THEN p \in CACorrectCells
            ELSE Grid_at(ca.mask, p.x, p.y) = Grid_at(ca.pre, p.x, p.y)

(***************************************************************************)
(* Operations on two grids with domains of their own: compare (hrzn and    *)
(* htl utility.h), equal and the boolean operators (htl containers.h).     *)
(***************************************************************************)
\* the loop "if (a.at(x, y) != b.at(x, y)) return false;" over pts, then
\* "return true": the first cell at which a read throws or the values
\* differ decides how the call ends
CompareLoop(a, b, pts) ==
    LET ra(k) == Grid_at(a, pts[k].x, pts[k].y)
        rb(k) == Grid_at(b, pts[k].x, pts[k].y)
        stops(k) == ra(k).ex # "none" \/ rb(k).ex # "none"
                       \/ ra(k).val # rb(k).val
        S == {k \in 1..Len(pts) : stops(k)}
    IN  IF S = {} THEN [ex |-> "none", out |-> TRUE]
        ELSE LET k == CHOOSE i \in S : \A j \in S : i <= j
             IN  IF ra(k).ex # "none" THEN [ex |-> ra(k).ex, out |-> FALSE]
                 ELSE IF rb(k).ex # "none" THEN [ex |-> rb(k).ex, out |-> FALSE]
                 ELSE [ex |-> "none", out |-> FALSE]

\* compare(IMatrix, IMatrix) of hrzn/utility.h
utility_compare(a, b) ==
    LET area == utility_intersect(a.area, b.area)
    IN  CompareLoop(a, b, LoopPoints(area.x1, area.x2, area.y1, area.y2))

\* compare(IMap, IMap) of htl/utility.h, looping with HRZN_FOREACH_POINT
htl_compare(a, b) ==
    LET area == htl_utility_intersect(a.area, b.area)
    IN  CompareLoop(a, b,
                    LoopPoints(area.x1, area.x2 - 1, area.y1, area.y2 - 1))

\* equal(Map, Map) of htl/containers.h
Map_equal(a, b) ==
    LET area == point_area_intersect(a.area, b.area)
    IN  CompareLoop(a, b,
                    LoopPoints(area.x1, area.x2 - 1, area.y1, area.y2 - 1))

\* operator ^(IMatrix<bool>, IMatrix<bool>) of hrzn/hrzn.h; htl/hrzn.h has
\* the same text over hArea.  The cell expression is the one of operator &
operator_xor(a, b) ==
    LET result == HMask(Area_intersect(a.area, b.area))
        pts == LoopPoints(result.area.x1, result.area.x2,
                          result.area.y1, result.area.y2)
    IN  SetSeq(result, pts,
               [k \in 1..Len(pts) |->
                   AndVal(Grid_at(a, pts[k].x, pts[k].y),
                          Grid_at(b, pts[k].x, pts[k].y))],
               1, Len(pts))

\* operator ^(Map<bool>, Map<bool>) of htl/containers.h
Map_operator_xor(a, b) ==
    LET rect == point_area_intersect(a.area, b.area)
        result == [kind |-> "MapContainer", area |-> rect,
                   m_contents |-> NewArray(point_area_area(rect), Indet)]
        pts == LoopPoints(rect.x1, rect.x2 - 1, rect.y1, rect.y2 - 1)
    IN  SetSeq(result, pts,
               [k \in 1..Len(pts) |->
                   AndVal(Grid_at(a, pts[k].x, pts[k].y),
                          Grid_at(b, pts[k].x, pts[k].y))],
               1, Len(pts))

(***************************************************************************)
(* SpecPair: two grids of one library revision, a in maskA and b in maskB, *)
(* each over a rectangle of columns 0..MaxP and rows 0..1, holding all 0,  *)
(* all 1, or 1 in the first or the last cell only; one operation is        *)
(* applied to them.                                                        *)
(***************************************************************************)
MaxP == 2

PairRects ==
    {Area(xa, ya, xb, yb) : xa \in 0..MaxP, xb \in 0..MaxP,
                            ya \in 0..1, yb \in 0..1}

PairGrid(fam, r, ones) ==
    SetEach(CASE fam = "hrzn" -> MatrixContainer(r, 0)
              [] fam = "htl" -> HMap(r, 0)
              [] fam = "containers" ->
                    MapContainer(point_area(r.x1, r.y1, r.x2 + 1, r.y2 + 1), 0),
            ones, 1, Len(ones), 1).g

PairGrids(fam) ==
    UNION {LET pts == AreaPoints(r)
           IN  {PairGrid(fam, r, <<>>), PairGrid(fam, r, pts),
                PairGrid(fam, r, <<pts[1]>>), PairGrid(fam, r, <<pts[Len(pts)]>>)}
           : r \in PairRects}

notPair == <<rc, it, grid, denseA, ff, ca>>

InitPair ==
    /\ rc = Idle /\ it = Idle /\ grid = Idle /\ denseA = Idle
    /\ ff = Idle /\ ca = Idle
    /\ last = [op |-> "construct"]
    /\ \E fam \in {"hrzn", "htl", "containers"} :
          /\ maskA \in PairGrids(fam)
          /\ maskB \in PairGrids(fam)

CallCompare ==
    /\ maskA.kind \in {"MatrixContainer", "HMap"}
    /\ \E r \in {IF maskA.kind = "MatrixContainer"
                 THEN utility_compare(maskA, maskB)
                 ELSE htl_compare(maskA, maskB)} :
          last' = [op |-> "compare", out |-> r.out, ex |-> r.ex]
    /\ UNCHANGED <<maskA, maskB, notPair>>

CallEqual ==
    /\ maskA.kind = "MapContainer"
    /\ \E r \in {Map_equal(maskA, maskB)} :
          last' = [op |-> "equal", out |-> r.out, ex |-> r.ex]
    /\ UNCHANGED <<maskA, maskB, notPair>>

\* a ^ b on two hrzn grids
CallOperatorXor ==
    /\ maskA.kind = "MatrixContainer"
    /\ \E r \in {operator_xor(maskA, maskB)} :
          last' = [op |-> "operator^", out |-> r.g, ex |-> r.ex]
    /\ UNCHANGED <<maskA, maskB, notPair>>

\* a ^ b on two htl MapContainers
CallMapOperatorXor ==
    /\ maskA.kind = "MapContainer"
    /\ \E r \in {Map_operator_xor(maskA, maskB)} :
          last' = [op |-> "operator^", out |-> r.g, ex |-> r.ex]
    /\ UNCHANGED <<maskA, maskB, notPair>>

NextPair ==
    CallCompare \/ CallEqual \/ CallOperatorXor \/ CallMapOperatorXor

SpecPair == InitPair /\ [][NextPair]_vars

\* the coordinates both domains hold
Overlap == {p \in DomainOf(maskA) : Grid_contains(maskB, p.x, p.y)}

OverlapEqual ==
    \A p \in Overlap : Grid_at(maskA, p.x, p.y) = Grid_at(maskB, p.x, p.y)

\* C11: compare(a, b) and equal(a, b) raise no error for any two domains
\* and return true iff a and b hold equal values at every coordinate that
\* both domains contain.
C11_CompareIsOverlapEquality ==
    last.op \in {"compare", "equal"} =>
        last.ex = "none" /\ last.out = OverlapEqual

\* C11, equal of htl/containers.h only
C11_MapEqualIsOverlapEquality ==
    last.op = "equal" => last.ex = "none" /\ last.out = OverlapEqual

\* C11, compare of hrzn/utility.h on two domains that share a coordinate
C11_CompareOfOverlappingDomains ==
    (last.op = "compare" /\ maskA.kind = "MatrixContainer" /\ Overlap # {}) =>
        last.ex = "none" /\ last.out = OverlapEqual

(***************************************************************************)
(* Copies of a MapContainer (htl/containers.h).  The arrays live in a heap *)
(* of a few addresses and a container holds the address of its array in    *)
(* m_contents, so that two containers can share storage if the code makes  *)
(* them.                                                                   *)
(***************************************************************************)
MaxAddr == 3

Addrs == 1..MaxAddr

\* a plausible slip: the new container takes over the other's pointer
MapContainer_copy_Shallow(st, other, addr) ==
    [heap |-> st.heap, live |-> st.live,
     obj |-> [kind |-> "MapContainer", area |-> other.area,
              m_contents |-> other.m_contents]]

\* MapContainer(const MapContainer& other): new T[other.area()], std::copy
MapContainer_copy(st, other, addr) ==
    [heap |-> [st.heap EXCEPT ![addr] =
                  [i \in 0..(point_area_area(other.area) - 1) |->
                      st.heap[other.m_contents][i]]],
     live |-> st.live \cup {addr},
     obj |-> [kind |-> "MapContainer", area |-> other.area,
              m_contents |-> addr]]

\* point_area::resize(x1, y1, x2, y2)
point_area_resize(a, x_1, y_1, x_2, y_2) ==
    point_area(Min(x_1, x_2), Min(y_1, y_2), Max(x_1, x_2), Max(y_1, y_2))

\* operator =(const MapContainer& other), this != &other: delete[], new,
\* std::copy, then the domain is taken over
MapContainer_assign(st, this, other, addr) ==
    [heap |-> [st.heap EXCEPT ![this.m_contents] = <<>>,
                              ![addr] =
                  [i \in 0..(point_area_area(other.area) - 1) |->
                      st.heap[other.m_contents][i]]],
     live |-> (st.live \ {this.m_contents}) \cup {addr},
     obj |-> [this EXCEPT !.m_contents = addr,
                          !.area = point_area_resize(this.area,
                                       other.area.x1, other.area.y1,
                                       other.area.x2, other.area.y2)]]

\* the container as a value: its domain and the array m_contents points to
Deref(st, o) ==
    [kind |-> "MapContainer", area |-> o.area,
     m_contents |-> st.heap[o.m_contents]]

\* copy(map): a container over map's domain, every cell set from map
Map_copy(st, map, addr) ==
    LET result == MapContainer(map.area, Indet)
        pts == LoopPoints(map.area.x1, map.area.x2 - 1,
                          map.area.y1, map.area.y2 - 1)
        r == SetSeq(result, pts,
                    [k \in 1..Len(pts) |->
                        Grid_at(Deref(st, map), pts[k].x, pts[k].y)],
                    1, Len(pts))
    IN  [heap |-> [st.heap EXCEPT ![addr] = r.g.m_contents],
         live |-> st.live \cup {addr},
         obj |-> [kind |-> "MapContainer", area |-> map.area,
                  m_contents |-> addr]]

(***************************************************************************)
(* SpecCopy: container a exists, b is made from it by the copy             *)
(* constructor or by copy(), or exists and is assigned a; afterwards cells *)
(* of either are set and either is filled.  The variable grid holds the    *)
(* heap, both containers and the operation that last made b (by).          *)
(***************************************************************************)
MaxCopy == 2

\* rows of 1..MaxCopy cells at the origin, a column at (1, 1), a 2x2 block
CopyRects ==
    {point_area(0, 0, w, 1) : w \in 1..MaxCopy}
        \cup {point_area(1, 1, 2, 3), point_area(0, 0, 2, 2)}

NoObject == [kind |-> "none"]

notCopy == <<rc, it, maskA, maskB, denseA, ff, ca>>

InitCopy ==
    /\ rc = Idle /\ it = Idle /\ maskA = Idle /\ maskB = Idle
    /\ denseA = Idle /\ ff = Idle /\ ca = Idle
    /\ last = [op |-> "construct"]
    /\ \E ra \in CopyRects, va \in Vals :
          LET a == [kind |-> "MapContainer", area |-> ra, m_contents |-> 1]
              ha == [i \in Addrs |->
                       IF i = 1 THEN NewArray(point_area_area(ra), va)
                       ELSE <<>>]
          IN  \/ grid = [heap |-> ha, live |-> {1}, a |-> a, b |-> NoObject,
                         by |-> "none"]
              \/ \E rb \in CopyRects, vb \in Vals :
                    grid = [heap |-> [ha EXCEPT ![2] =
                                        NewArray(point_area_area(rb), vb)],
                            live |-> {1, 2}, a |-> a,
                            b |-> [kind |-> "MapContainer", area |-> rb,
                                   m_contents |-> 2],
                            by |-> "constructor"]

\* MapContainer<T> b(a);
CallCopyConstruct ==
    /\ grid.b = NoObject
    /\ \E addr \in Addrs \ grid.live :
          \E r \in {MapContainer_copy(grid, grid.a, addr)} :
             grid' = [heap |-> r.heap, live |-> r.live, a |-> grid.a,
                      b |-> r.obj, by |-> "copy constructor"]
    /\ last' = [op |-> "copy constructor"]
    /\ UNCHANGED notCopy

\* auto b = copy(a);
CallCopy ==
    /\ grid.b = NoObject
    /\ \E addr \in Addrs \ grid.live :
          \E r \in {Map_copy(grid, grid.a, addr)} :
             grid' = [heap |-> r.heap, live |-> r.live, a |-> grid.a,
                      b |-> r.obj, by |-> "copy"]
    /\ last' = [op |-> "copy"]
    /\ UNCHANGED notCopy

\* b = a;
CallAssign ==
    /\ grid.b # NoObject
    /\ \E addr \in Addrs \ (grid.live \ {grid.b.m_contents}) :
          \E r \in {MapContainer_assign(grid, grid.b, grid.a, addr)} :
             grid' = [heap |-> r.heap, live |-> r.live, a |-> grid.a,
                      b |-> r.obj, by |-> "operator="]
    /\ last' = [op |-> "operator="]
    /\ UNCHANGED notCopy

\* a.set(x, y, v) or b.set(x, y, v), inside or outside the domain
CopySet ==
    /\ grid.b # NoObject
    /\ \E w \in {"a", "b"}, x \in 0..MaxCopy, y \in 0..2, v \in Vals :
          LET o == IF w = "a" THEN grid.a ELSE grid.b
              r == MapContainer_set(Deref(grid, o), x, y, v)
          IN  /\ grid' = [grid EXCEPT !.heap[o.m_contents] = r.g.m_contents]
              /\ last' = [op |-> "set", on |-> w, ex |-> r.ex]
    /\ UNCHANGED notCopy

\* a.fill(v) or b.fill(v)
CopyFill ==
    /\ grid.b # NoObject
    /\ \E w \in {"a", "b"}, v \in Vals :
          LET o == IF w = "a" THEN grid.a ELSE grid.b
              r == Map_fill(Deref(grid, o), v)
          IN  /\ grid' = [grid EXCEPT !.heap[o.m_contents] = r.g.m_contents]
              /\ last' = [op |-> "fill", on |-> w, ex |-> r.ex]
    /\ UNCHANGED notCopy

NextCopy ==
    CallCopyConstruct \/ CallCopy \/ CallAssign \/ CopySet \/ CopyFill

SpecCopy == InitCopy /\ [][NextCopy]_vars

\* what reading every coordinate of a container gives
CellsOf(st, o) ==
    [p \in DomainOf(Deref(st, o)) |-> Grid_at(Deref(st, o), p.x, p.y)]

CopyOps == {"copy constructor", "copy", "operator="}

\* right after b was made from a, b has a's domain and a's value at every
\* coordinate
CopyTakesDomainAndCells ==
    last.op \in CopyOps =>
        /\ grid.b.area = grid.a.area
        /\ CellsOf(grid, grid.b) = CellsOf(grid, grid.a)
        /\ \A p \in DomainOf(Deref(grid, grid.b)) :
              CellsOf(grid, grid.b)[p] \in {Got(v) : v \in Vals}

\* a set or fill on one container of a copied pair leaves every value read
\* from the other as it was
WriteLeavesOtherAlone ==
    (grid.by \in CopyOps /\ last'.op \in {"set", "fill"}) =>
        /\ last'.on = "a" => CellsOf(grid', grid'.b) = CellsOf(grid, grid.b)
        /\ last'.on = "b" => CellsOf(grid', grid'.a) = CellsOf(grid, grid.a)

\* C12: after copy-construction, assignment or copy() the new MapContainer
\* has the source's domain and the source's value at every coordinate, and
\* no later set or fill on either of the two changes a value read from the
\* other.
C12_CopyIsDeep == []CopyTakesDomainAndCells /\ [][WriteLeavesOtherAlone]_vars

\* C12: b was assigned from a, then a cell of a was set, and the two now
\* differ at a coordinate of their common domain
C12_Witness ==
    /\ grid.by = "operator=" /\ last.op = "set" /\ last.on = "a"
    /\ last.ex = "none"
    /\ grid.b.area = grid.a.area
    /\ CellsOf(grid, grid.a) # CellsOf(grid, grid.b)

(***************************************************************************)
(* MapReference: a view of a MapContainer (htl/containers.h).              *)
(***************************************************************************)
MapReference(area, mat) ==
    [kind |-> "MapReference", area |-> area, m_source |-> mat]

\* GetReferenceArea(area, map)
GetReferenceArea(area, map) ==
    MapReference(point_area_intersect(area, map.area), map)

\* std::fill(first, last, val) from iterator position p of view g:
\* "for (; first != last; ++first) *first = val".  operator++ divides by
\* map.width(); for a width of 0 that is undefined and is taken to end the
\* call there
RECURSIVE std_fill(_, _, _)
std_fill(g, p, val) ==
    IF i_tuple2_eq(p, Map_end(g.area)) THEN [g |-> g, ex |-> "none"]
    ELSE LET r == Grid_set(g, p.x, p.y, val)
         IN  IF r.ex # "none" THEN r
             ELSE IF point_area_width(g.area) = 0
             THEN [g |-> r.g, ex |-> "undefined"]
             ELSE std_fill(r.g, Map_Iterator_inc(g.area, p), val)

(***************************************************************************)
(* SpecView: a view made by GetReferenceArea of a 2x2 MapContainer at the  *)
(* origin, for every rectangle with corners in -1..MaxView; the view is    *)
(* filled, or assigned to through its iterators.                           *)
(***************************************************************************)
MaxView == 3

ViewAreas ==
    {r \in [x1 : (0 - 1)..MaxView, y1 : (0 - 1)..MaxView,
            x2 : (0 - 1)..MaxView, y2 : (0 - 1)..MaxView] :
        r.x1 < r.x2 /\ r.y1 < r.y2}

notView == <<rc, it, maskA, maskB, denseA, ff, ca>>

InitView ==
    /\ rc = Idle /\ it = Idle /\ maskA = Idle /\ maskB = Idle
    /\ denseA = Idle /\ ff = Idle /\ ca = Idle
    /\ last = [op |-> "construct"]
    /\ \E area \in ViewAreas :
          grid = GetReferenceArea(area, MapContainer(point_area(0, 0, 2, 2), 0))

\* view.fill(v)
ViewFill ==
    /\ \E v \in Vals :
          \E r \in {Map_fill(grid, v)} :
             /\ grid' = r.g
             /\ last' = [op |-> "fill", v |-> v, ex |-> r.ex]
    /\ UNCHANGED notView

\* std::fill(view.begin(), view.end(), v)
ViewAssign ==
    /\ \E v \in Vals :
          \E r \in {std_fill(grid, Map_begin(grid.area), v)} :
             /\ grid' = r.g
             /\ last' = [op |-> "std::fill", v |-> v, ex |-> r.ex]
    /\ UNCHANGED notView

NextView == ViewFill \/ ViewAssign

SpecView == InitView /\ [][NextView]_vars

\* the call just made raised nothing, set every source cell inside the
\* view's domain, as many as view.area(), and left the other source cells
\* as they were
WroteExactlyTheView ==
    /\ last'.ex = "none"
    /\ grid'.area = grid.area
    /\ Cardinality(DomainOf(grid)) = point_area_area(grid.area)
    /\ \A p \in DomainOf(grid.m_source) :
          Grid_at(grid'.m_source, p.x, p.y) =
              IF p \in DomainOf(grid) THEN Got(last'.v)
              ELSE Grid_at(grid.m_source, p.x, p.y)

\* C13: filling or assigning through a view made by GetReferenceArea
\* changes exactly the source cells inside the view's domain, view.area()
\* of them, and raises no error, whatever the rectangle the view was asked
\* for.
C13_ViewWritesItsDomain ==
    [][last'.op \in {"fill", "std::fill"} => WroteExactlyTheView]_vars

\* C13, fill only
C13_ViewFillWritesItsDomain ==
    [][last'.op = "fill" => WroteExactlyTheView]_vars

\* C13, for views that hold at least one cell
C13_NonEmptyViewWritesItsDomain ==
    [][(last'.op \in {"fill", "std::fill"} /\ DomainOf(grid) # {})
          => WroteExactlyTheView]_vars

\* the domain of every view is the part of the asked rectangle inside the
\* source
C13_ViewDomainInsideSource ==
    \A p \in DomainOf(grid) : Grid_contains(grid.m_source, p.x, p.y)

\* exclusive or of two cell values
BoolXor(a, b) == IF a # b THEN 1 ELSE 0

\* C14: a ^ b, once returned, is a grid over the intersection of the two
\* domains whose cell at every coordinate of it is the exclusive or of the
\* operands' cells.
C14_XorIsCellwise ==
    (last.op = "operator^" /\ last.ex = "none") =>
        /\ DomainOf(last.out) = Overlap
        /\ \A p \in Overlap :
              Grid_at(last.out, p.x, p.y) =
                  Got(BoolXor(Grid_at(maskA, p.x, p.y).val,
                              Grid_at(maskB, p.x, p.y).val))

\* C14, as the code has it: the result is over the intersection and its
\* cells are the conjunction of the operands' cells
C14_XorComputesAnd ==
    (last.op = "operator^" /\ last.ex = "none") =>
        /\ DomainOf(last.out) = Overlap
        /\ \A p \in Overlap :
              Grid_at(last.out, p.x, p.y) =
                  Got(BoolAnd(Grid_at(maskA, p.x, p.y).val,
                              Grid_at(maskB, p.x, p.y).val))

\* C15: replace(map, find, repl) raises nothing, sets to repl exactly the
\* cells of map that held find and leaves every other cell as it was.
C15_ReplaceOnlyMatching ==
    [][last'.op = "replace" =>
          /\ last'.ex = "none"
          /\ \A p \in DomainOf(grid) :
                Grid_at(grid', p.x, p.y) =
                    IF Grid_at(grid, p.x, p.y) = Got(last'.find)
                    THEN Got(last'.repl)
                    ELSE Grid_at(grid, p.x, p.y)]_vars

\* C15, as htl/utility.h has it: correct on the cells with x < x2 and
\* y < y2, the last column and the last row are left as they were
C15_HtlReplaceSkipsLastRowAndColumn ==
    [][(last'.op = "replace" /\ grid.kind = "HMap") =>
          /\ last'.ex = "none"
          /\ \A p \in DomainOf(grid) :
                Grid_at(grid', p.x, p.y) =
                    IF /\ p.x < grid.area.x2 /\ p.y < grid.area.y2
                       /\ Grid_at(grid, p.x, p.y) = Got(last'.find)
                    THEN Got(last'.repl)
                    ELSE Grid_at(grid, p.x, p.y)]_vars

\* C15, as htl/containers.h has it: every cell ends as repl
C15_MapReplaceOverwritesAll ==
    [][(last'.op = "replace" /\ grid.kind = "MapContainer") =>
          /\ last'.ex = "none"
          /\ \A p \in DomainOf(grid) :
                Grid_at(grid', p.x, p.y) = Got(last'.repl)]_vars

(***************************************************************************)
(* The neighbour counts and the positions read by cellularAutomata.        *)
(***************************************************************************)
\* the cells whose count the first pass has stored so far
CACounted ==
    IF ca.pc = "count"
    THEN {CACells[i] : i \in 1..(ca.k - 1)}
    ELSE IF ca.ex = "none" \/ ca.pc = "apply"
    THEN {CACells[i] : i \in 1..Len(CACells)}
    ELSE {}

\* the live cells, on the grid as it was before the step, among the
\* positions read for the first n entries of neighborhood8
LiveAmong(cell, n) ==
    Cardinality({d \in 1..n :
        LET pos == NeighbourPos(ca.fn, ca.wrap_position, cell,
                                neighborhood8[d], ca.pre.area)
        IN  Grid_at(ca.pre, pos.x, pos.y) = Got(1)})

\* C17: the count stored for a cell is the number of live cells among the
\* positions read for the 8 neighbouring offsets; the cell's own offset
\* (0, 0) is not counted.
C17_CountIsOverEightOffsets ==
    \A cell \in CACounted :
        Grid_at(ca.neighbor_counts, cell.x, cell.y) = Got(LiveAmong(cell, 8))

\* C17, as the code has it: the count is over all nine entries of the
\* table, the ninth being the cell's own offset
C17_CountIncludesOwnOffset ==
    \A cell \in CACounted :
        Grid_at(ca.neighbor_counts, cell.x, cell.y) = Got(LiveAmong(cell, 9))

\* p wrapped around to the opposite edge of the rectangle, and p moved to
\* the nearest position of the rectangle (x1..x2 and y1..y2 are its cells)
Wrapped(p, area) ==
    [x |-> area.x1 + ((p.x - area.x1) % (area.x2 - area.x1 + 1)),
     y |-> area.y1 + ((p.y - area.y1) % (area.y2 - area.y1 + 1))]

Clamped(p, area) ==
    [x |-> Min(Max(p.x, area.x1), area.x2),
     y |-> Min(Max(p.y, area.y1), area.y2)]

\* the positions the first pass has computed so far: those of the cells
\* it has counted and of the cell at which it was left by an exception
CAReads ==
    LET cells == CACounted \cup (IF ca.pc = "count" /\ ca.ex # "none"
                                 THEN {CACells[ca.k]} ELSE {})
    IN  {[at |-> ITuple_add(cell, neighborhood8[d]),
          pos |-> NeighbourPos(ca.fn, ca.wrap_position, cell,
                               neighborhood8[d], ca.pre.area)] :
            cell \in cells, d \in 1..Len(neighborhood8)}

\* C18: every position cellularAutomata reads is the neighbour position
\* wrapped around to the opposite edge when wrap_position and moved to the
\* nearest cell of the domain otherwise, lies inside the domain, and no
\* step is left by an out-of-range error, on every non-empty domain.
C18_BoundaryPolicyKeepsReadsInside ==
    /\ ca.ex = "none"
    /\ \A r \in CAReads :
          /\ r.pos = IF ca.wrap_position THEN Wrapped(r.at, ca.mask.area)
                     ELSE Clamped(r.at, ca.mask.area)
          /\ Grid_contains(ca.mask, r.pos.x, r.pos.y)

\* C18, as hrzn/utility.h has it: wrap_position = true clamps and never
\* leaves the domain; wrap_position = false stays inside a domain that
\* starts at (0, 0)
C18_HrznWrapPositionClamps ==
    ca.fn = "hrzn" =>
        /\ ca.wrap_position =>
              /\ ca.ex = "none"
              /\ \A r \in CAReads : r.pos = Clamped(r.at, ca.mask.area)
        /\ (ca.mask.area.x1 = 0 /\ ca.mask.area.y1 = 0) => ca.ex = "none"

\* C18, as htl/utility.h has it: wrap_position = false stops one short of
\* the last column and row
C18_HtlClampStopsShort ==
    (ca.fn = "htl" /\ ~ca.wrap_position) =>
        /\ ca.ex = "none"
        /\ \A r \in CAReads :
              r.pos = Clamped(r.at, [ca.mask.area EXCEPT !.x2 = @ - 1,
                                                         !.y2 = @ - 1])

(***************************************************************************)
(* C19: the points of an intersection.                                     *)
(***************************************************************************)
\* i_rectangle::contains(px, py)
i_rectangle_contains(r, px, py) ==
    px >= r.x /\ px < r.x + r.w /\ py >= r.y /\ py < r.y + r.h

\* contains(i_rectangle a, i_rectangle b)
contains(a, b) ==
    b.x >= a.x /\ b.y >= a.y /\ b.x + b.w <= a.x + a.w /\ b.y + b.h <= a.y + a.h

\* the points the rectangles are probed at: every coordinate a corner can
\* take and two beyond on each side
ProbePoints ==
    {[x |-> x, y |-> y] : x \in (0 - 3)..(2 * MaxCoord + 2),
                          y \in (0 - 3)..(2 * MaxCoord + 2)}

\* small's corners lie between big's
CornersInside(big, small) ==
    /\ small.x1 >= big.x1 /\ small.x2 <= big.x2
    /\ small.y1 >= big.y1 /\ small.y2 <= big.y2

\* out holds exactly the points common to a and b, and is small when small
\* lies inside big, for rectangles given by their corners
CornerIntersectCorrect(a, b, out) ==
    /\ \A p \in ProbePoints :
          Area_contains(out, p.x, p.y)
              <=> (Area_contains(a, p.x, p.y) /\ Area_contains(b, p.x, p.y))
    /\ CornersInside(a, b) => Area_eq(out, b)

\* C19: intersect(a, b) contains a point iff a and b both contain it, so
\* that the intersection of rectangles that share no point contains no
\* point, and intersect(big, small) == small when small lies inside big.
C19_IntersectHoldsCommonPoints ==
    /\ rc.op = "Area::intersect"
          => CornerIntersectCorrect(AsArea(rc.a), AsArea(rc.b), rc.out)
    /\ rc.op = "hArea::intersect"
          => CornerIntersectCorrect(AshArea(rc.a), AshArea(rc.b), rc.out)
    /\ rc.op = "intersect" =>
          /\ \A p \in ProbePoints :
                i_rectangle_contains(rc.out, p.x, p.y)
                    <=> /\ i_rectangle_contains(AsRect(rc.a), p.x, p.y)
                        /\ i_rectangle_contains(AsRect(rc.b), p.x, p.y)
          /\ contains(AsRect(rc.a), AsRect(rc.b))
                => i_rectangle_eq(rc.out, AsRect(rc.b))

\* C19, of hArea::intersect and intersect(i_rectangle, i_rectangle), which
\* keep crossed corners and negative sizes as they come out
C19_UnorderedIntersectHoldsCommonPoints ==
    rc.op # "Area::intersect" => C19_IntersectHoldsCommonPoints

\* C19, of Area::intersect on areas that share a point
C19_AreaIntersectOfOverlapping ==
    (/\ rc.op = "Area::intersect"
     /\ \E p \in ProbePoints : /\ Area_contains(AsArea(rc.a), p.x, p.y)
                               /\ Area_contains(AsArea(rc.b), p.x, p.y))
        => CornerIntersectCorrect(AsArea(rc.a), AsArea(rc.b), rc.out)

\* C19, of Area::intersect on areas that share no point: the result is the
\* rectangle between them and contains a point
C19_AreaIntersectOfDisjointIsNotEmpty ==
    (/\ rc.op = "Area::intersect"
     /\ \A p \in ProbePoints : ~(/\ Area_contains(AsArea(rc.a), p.x, p.y)
                                 /\ Area_contains(AsArea(rc.b), p.x, p.y)))
        => /\ Area_area(rc.out) > 0
           /\ \E p \in ProbePoints : Area_contains(rc.out, p.x, p.y)

(***************************************************************************)
(* SpecEmpty: range-for loops and fill over grids of htl whose domain has  *)
(* a width or height of 2, 1, 0 or -1, and over a default-constructed      *)
(* HMap.                                                                   *)
(***************************************************************************)
INT_MAX == 2147483647

INT_MIN == (0 - INT_MAX) - 1

\* hArea(): x1 = y1 = INT_MAX, x2 = y2 = INT_MIN
hArea_default == hArea(INT_MAX, INT_MAX, INT_MIN, INT_MIN)

\* "std::max(hi - lo + 1_hi, 0_hi)" of hArea::width and height in int
\* arithmetic.  When hi - lo is below INT_MIN the subtraction overflows,
\* which is undefined: a build either wraps it modulo 2^32 or keeps the
\* comparison with 0 as if it had not overflowed, giving 0
hArea_extent(lo, hi) ==
    IF lo > 0 /\ hi < INT_MIN + lo
    THEN {Max(((hi - INT_MIN) + (INT_MAX - lo) + 1) + 1, 0), 0}
    ELSE {Max(hi - lo + 1, 0)}

\* HMap(): the default area, m_contents is nullptr
HMap_default ==
    [kind |-> "HMap", area |-> hArea_default, m_contents |-> NewArray(0, Indet)]

\* the largest width and height of the domains, the smallest being -1
MaxE == 2

EmptySizes == (0 - 1)..MaxE

\* a loop about to start: cur is begin(), size what area() returns to end()
LoopOver(g, size) ==
    [g |-> g, size |-> size, op |-> "none", n |-> 0, ex |-> "none",
     cur |-> IF g.kind = "HMap" THEN 0 ELSE Map_begin(g.area)]

InitEmpty ==
    /\ rc = Idle /\ grid = Idle /\ last = Idle /\ maskA = Idle
    /\ maskB = Idle /\ denseA = Idle /\ ff = Idle /\ ca = Idle
    /\ \/ \E o \in Origins, w \in EmptySizes, h \in EmptySizes :
             \/ it = LoopOver(MapContainer(point_area(o[1], o[2],
                                                      o[1] + w, o[2] + h), 0),
                              0)
             \/ \E a \in {hArea(o[1], o[2], o[1] + w - 1, o[2] + h - 1)} :
                   it = LoopOver(HMap(a, 0), hArea_area(a))
       \/ \E w \in hArea_extent(hArea_default.x1, hArea_default.x2),
             h \in hArea_extent(hArea_default.y1, hArea_default.y2) :
             it = LoopOver(HMap_default, w * h)

\* one iteration of "for (auto& cell : map)" over a Map: taken while the
\* iterator differs from end(); the cell is read through map.at, then ++
MapRangeFor ==
    /\ it.op \in {"none", "for"} /\ it.ex = "none"
    /\ it.g.kind = "MapContainer"
    /\ ~i_tuple2_eq(it.cur, Map_end(it.g.area))
    /\ \E r \in {Grid_at(it.g, it.cur.x, it.cur.y)} :
          it' = IF r.ex # "none"
                THEN [it EXCEPT !.op = "for", !.n = @ + 1, !.ex = r.ex]
                ELSE IF point_area_width(it.g.area) = 0
                THEN [it EXCEPT !.op = "for", !.n = @ + 1,
                                !.ex = "undefined"]
                ELSE [it EXCEPT !.op = "for", !.n = @ + 1,
                                !.cur = Map_Iterator_inc(it.g.area, it.cur)]
    /\ UNCHANGED notIt

\* one iteration of "for (auto& cell : map)" over an HMap: begin() is
\* m_contents, end() is &m_contents[area()], the cell is read through the
\* pointer
HMapRangeFor ==
    /\ it.op \in {"none", "for"} /\ it.ex = "none"
    /\ it.g.kind = "HMap"
    /\ it.cur # it.size
    /\ \E r \in {ArrayRead(it.g, Index(it.cur))} :
          it' = IF r.ex # "none"
                THEN [it EXCEPT !.op = "for", !.n = @ + 1, !.ex = r.ex]
                ELSE [it EXCEPT !.op = "for", !.n = @ + 1, !.cur = @ + 1]
    /\ UNCHANGED notIt

\* map.fill(v): the loops of Map::fill and IMap::fill; the outer loop of a
\* domain with y1 beyond y2 ends at once
EmptyFill ==
    /\ it.op = "none"
    /\ \E v \in Vals :
          \E r \in {IF it.g.area.y1 > it.g.area.y2
                    THEN [g |-> it.g, ex |-> "none"]
                    ELSE Grid_fill(it.g, v)} :
             it' = [it EXCEPT !.op = "fill", !.g = r.g, !.ex = r.ex]
    /\ UNCHANGED notIt

NextEmpty == MapRangeFor \/ HMapRangeFor \/ EmptyFill

SpecEmpty == InitEmpty /\ [][NextEmpty]_vars

\* the domain holds no cell
EmptyDomain(g) ==
    IF g.kind = "HMap"
    THEN g.area.x2 < g.area.x1 \/ g.area.y2 < g.area.y1
    ELSE g.area.x2 <= g.area.x1 \/ g.area.y2 <= g.area.y1

\* C20: a loop over a grid whose domain is empty or invalid (a default-
\* constructed grid, a width of zero with a positive height, a height of
\* zero) performs no iteration and raises no error.
C20_EmptyDomainIsNoOp ==
    EmptyDomain(it.g) => (it.n = 0 /\ it.ex = "none")

\* C20, of fill, and of the loops over an HMap that was given a domain and
\* over a Map whose height is zero
C20_EmptyFillAndZeroHeightAreNoOps ==
    EmptyDomain(it.g) =>
        /\ it.op = "fill" => it.ex = "none"
        /\ (it.g.kind = "HMap" /\ it.g.area # hArea_default)
              => (it.n = 0 /\ it.ex = "none")
        /\ (it.g.kind = "MapContainer" /\ it.g.area.y1 = it.g.area.y2)
              => (it.n = 0 /\ it.ex = "none")

\* C20, of the loop over a Map with no column and a height other than
\* zero: the first iteration is entered and map.at throws
C20_ZeroWidthMapLoopThrows ==
    (/\ it.g.kind = "MapContainer" /\ it.op = "for"
     /\ EmptyDomain(it.g)) => (it.n = 1 /\ it.ex = "out_of_range")

(***************************************************************************)
(* C21: split.                                                             *)
(***************************************************************************)
\* the cells of a rectangle given by its corners, or by position and size
RectCells(r) ==
    IF "w" \in DOMAIN r
    THEN {p \in ProbePoints : i_rectangle_contains(r, p.x, p.y)}
    ELSE {p \in ProbePoints : Area_contains(r, p.x, p.y)}

\* the rectangle split was called with
SplitArg == IF rc.op = "split" THEN RectOfArea(AsArea(rc.a)) ELSE AsArea(rc.a)

\* both parts lie in r and together they hold every cell of r; parts cut
\* across the height keep r's columns and do not both keep all its rows,
\* parts cut across the width keep its rows and not both all its columns
SplitCorrect(r, parts) ==
    LET c == RectCells(r)
        c1 == RectCells(parts[1])
        c2 == RectCells(parts[2])
        w == Area_width(AsArea(rc.a))
        h == Area_height(AsArea(rc.a))
        cols(S) == {p.x : p \in S}
        rows(S) == {p.y : p \in S}
    IN  /\ c1 \subseteq c /\ c2 \subseteq c /\ c1 \cup c2 = c
        /\ IF h > 1 /\ h > w
           THEN /\ cols(c1) = cols(c) /\ cols(c2) = cols(c)
                /\ (rows(c1) # rows(c) \/ rows(c2) # rows(c))
           ELSE w > 1 =>
                /\ rows(c1) = rows(c) /\ rows(c2) = rows(c)
                /\ (cols(c1) # cols(c) \/ cols(c2) # cols(c))

\* C21: split(r) of a valid rectangle r returns two rectangles contained in
\* r whose union is r, cut across the height when height > 1 and height >
\* width, otherwise across the width when width > 1.
C21_SplitCoversRectangle ==
    rc.op \in {"utility_split", "htl_split", "split"}
        => SplitCorrect(SplitArg, rc.out)

\* C21, of split(Area) and split(hArea)
C21_CornerSplitCoversRectangle ==
    rc.op \in {"utility_split", "htl_split"}
        => SplitCorrect(SplitArg, rc.out)

(***************************************************************************)
(* Whole-grid transforms: rotate_map of htl/utility.h on HMap, and the     *)
(* in-place flipX, flipY and reverse of Map (htl/containers.h).            *)
(***************************************************************************)
\* swizzle(const hArea&)
htl_swizzle(a) == hArea(a.y1, a.x1, a.y2, a.x2)

\* swizzle_map: "HMap<T> rotated(swizzle(map))" allocates without writing
\* the cells, then HRZN_FOREACH_POINT(map, x, y) rotated.set(y, x, map.at(x, y))
swizzle_map(map) ==
    LET rotated == [kind |-> "HMap", area |-> htl_swizzle(map.area),
                    m_contents |->
                        NewArray(hArea_area(htl_swizzle(map.area)), Indet)]
        pts == LoopPoints(map.area.x1, map.area.x2 - 1,
                          map.area.y1, map.area.y2 - 1)
    IN  SetSeq(rotated, [k \in 1..Len(pts) |-> [x |-> pts[k].y, y |-> pts[k].x]],
               [k \in 1..Len(pts) |-> Grid_at(map, pts[k].x, pts[k].y)],
               1, Len(pts))

\* HMap's flipX (mx), flipY (my) and reverse (both), which rotate_map calls
\* and htl/hrzn.h does not hold: each cell takes the value of its mirror
\* cell in the columns, the rows, or both
HMap_mirror(g, mx, my) ==
    [g EXCEPT !.m_contents =
        [i \in DOMAIN g.m_contents |->
            LET w == hArea_width(g.area)
                x == g.area.x1 + (i % w)
                y == g.area.y1 + (i \div w)
                sx == IF mx THEN g.area.x1 + g.area.x2 - x ELSE x
                sy == IF my THEN g.area.y1 + g.area.y2 - y ELSE y
            IN  g.m_contents[(sx - g.area.x1) + (sy - g.area.y1) * w]]]

\* the int expression "((turns % 4) + 4) % 4": % truncates towards zero
TurnsMod4(turns) ==
    LET r == IF turns >= 0 THEN turns % 4 ELSE 0 - ((0 - turns) % 4)
    IN  (r + 4) % 4

\* rotate_map(map, turns); copy(map) is taken to yield map's domain and cells
rotate_map(map, turns) ==
    LET t == TurnsMod4(turns)
        s == swizzle_map(map)
    IN  CASE t = 1 -> [g |-> HMap_mirror(s.g, TRUE, FALSE), ex |-> s.ex]
          [] t = 3 -> [g |-> HMap_mirror(s.g, FALSE, TRUE), ex |-> s.ex]
          [] t = 2 -> [g |-> HMap_mirror(map, TRUE, TRUE), ex |-> "none"]
          [] OTHER -> [g |-> map, ex |-> "none"]

(***************************************************************************)
(* SpecTurn: rotate_map called once or twice on an HMap of up to MaxT x    *)
(* MaxT cells, at the origin or away from it, with every 0/1 content, for  *)
(* turns in -MaxTurns..MaxTurns.                                           *)
(***************************************************************************)
MaxT == 2

MaxTurns == 5

TurnOrigins == {<<0, 0>>, <<1, 3>>}

TurnGrids ==
    UNION {LET a == hArea(o[1], o[2], o[1] + w - 1, o[2] + h - 1)
           IN  {[kind |-> "HMap", area |-> a, m_contents |-> c] :
                   c \in [0..(w * h - 1) -> Vals]}
           : o \in TurnOrigins, w \in 1..MaxT, h \in 1..MaxT}

notTurn == <<rc, it, maskA, maskB, denseA, ff, ca>>

InitTurn ==
    /\ rc = Idle /\ it = Idle /\ maskA = Idle /\ maskB = Idle
    /\ denseA = Idle /\ ff = Idle /\ ca = Idle
    /\ grid \in TurnGrids
    /\ last = [op |-> "construct", n |-> 0]

\* out = rotate_map(grid, turns), on the grid constructed or on the result
\* of the call before
CallRotateMap ==
    /\ last.n < 2
    /\ \E turns \in (0 - MaxTurns)..MaxTurns :
          \E r \in {rotate_map(IF last.n = 0 THEN grid ELSE last.out, turns)} :
             last' = [op |-> "rotate_map", n |-> last.n + 1, turns |-> turns,
                      arg |-> IF last.n = 0 THEN grid ELSE last.out,
                      out |-> r.g, ex |-> r.ex]
    /\ UNCHANGED <<grid, rc, it, maskA, maskB, denseA, ff, ca>>

NextTurn == CallRotateMap

SpecTurn == InitTurn /\ [][NextTurn]_vars

\* k quarter turns, each made by rotate_map(., 1)
RECURSIVE QuarterTurns(_, _)
QuarterTurns(m, k) ==
    IF k = 0 THEN m ELSE rotate_map(QuarterTurns(m, k - 1), 1).g

\* C22: rotate_map(m, t) raises nothing and is t mod 4 quarter turns
\* rotate_map(., 1) of m, in domain and in every cell, for negative t too;
\* rotate_map(m, 0) is m and four quarter turns give back m.
C22_RotateIsRepeatedQuarterTurn ==
    last.op = "rotate_map" =>
        /\ last.ex = "none"
        /\ last.out = QuarterTurns(last.arg, last.turns % 4)
        /\ last.turns % 4 = 0 => last.out = last.arg
        /\ QuarterTurns(last.arg, 4) = last.arg

\* C22, the part about turns: the result depends on turns mod 4 only, no
\* turn gives the grid itself and two turns give it mirrored in both axes
C22_RotateDependsOnTurnsMod4 ==
    last.op = "rotate_map" =>
        /\ last.ex = "none"
        /\ last.out = rotate_map(last.arg, last.turns % 4).g
        /\ last.turns % 4 = 0 => last.out = last.arg
        /\ last.turns % 4 = 2 => last.out = HMap_mirror(last.arg, TRUE, TRUE)

\* C22, the quarter turn as the code makes it: the result has the swapped
\* domain, and its cell (y1 + y2 - y, x) holds the value of m's (x, y) for
\* the cells with x < x2 and y < y2; the other cells were never written
C22_QuarterTurnLeavesCellsUnwritten ==
    (last.op = "rotate_map" /\ last.turns % 4 = 1) =>
        /\ last.out.area = htl_swizzle(last.arg.area)
        /\ \A p \in DomainOf(last.arg) :
              Grid_at(last.out, last.arg.area.y1 + last.arg.area.y2 - p.y, p.x)
                  = IF p.x < last.arg.area.x2 /\ p.y < last.arg.area.y2
                    THEN Grid_at(last.arg, p.x, p.y)
                    ELSE Got(Indet)

\* Map::swap(a, b): "T value = at(a); set(a, at(b)); set(b, value);"
Map_swap(g, a, b) ==
    LET va == Grid_at(g, a.x, a.y)
        vb == Grid_at(g, b.x, b.y)
    IN  IF va.ex # "none" THEN [g |-> g, ex |-> va.ex]
        ELSE IF vb.ex # "none" THEN [g |-> g, ex |-> vb.ex]
        ELSE LET r == Grid_set(g, a.x, a.y, vb.val)
             IN  IF r.ex # "none" THEN r
                 ELSE Grid_set(r.g, b.x, b.y, va.val)

\* swap(pairs[k][1], pairs[k][2]) for k = lo..hi, in order
RECURSIVE SwapEach(_, _, _, _)
SwapEach(g, pairs, lo, hi) ==
    IF lo > hi THEN [g |-> g, ex |-> "none"]
    ELSE IF lo = hi THEN Map_swap(g, pairs[lo][1], pairs[lo][2])
    ELSE LET mid == (lo + hi) \div 2
             r == SwapEach(g, pairs, lo, mid)
         IN  IF r.ex # "none" THEN r
             ELSE SwapEach(r.g, pairs, mid + 1, hi)

\* Map::flipX: for y1 <= y < y2, 0 <= x < floor(width() / 2):
\* swap({x1 + x, y}, {x2 - x - 1, y})
Map_flipX(g) ==
    LET a == g.area
        pts == LoopPoints(0, (point_area_width(a) \div 2) - 1, a.y1, a.y2 - 1)
    IN  SwapEach(g, [k \in 1..Len(pts) |->
                        <<[x |-> a.x1 + pts[k].x, y |-> pts[k].y],
                          [x |-> a.x2 - pts[k].x - 1, y |-> pts[k].y]>>],
                 1, Len(pts))

\* Map::flipY: for x1 <= x < x2, 0 <= y < floor(height() / 2):
\* swap({x, y1 + y}, {x, y2 - y - 1})
Map_flipY(g) ==
    LET a == g.area
        pts == LoopPoints(a.x1, a.x2 - 1, 0, (point_area_height(a) \div 2) - 1)
    IN  SwapEach(g, [k \in 1..Len(pts) |->
                        <<[x |-> pts[k].x, y |-> a.y1 + pts[k].y],
                          [x |-> pts[k].x, y |-> a.y2 - pts[k].y - 1]>>],
                 1, Len(pts))

\* Map::Iterator::operator--
Map_Iterator_dec(m, p) ==
    LET y == p.y - (IF p.x = m.x1 THEN 1 ELSE 0)
        x == ((p.x - m.x1 - 1 + point_area_width(m))
                 % point_area_width(m)) + m.x1
    IN  [x |-> x, y |-> y]

\* std::reverse(first, lst) on bidirectional iterators, lst being its
\* parameter last:
\* "while (first != last && first != --last) { iter_swap(first, last);
\* ++first; }".  The iterators' -- and ++ divide by map.width(); for a
\* width of 0 that is undefined and is taken to end the call there
RECURSIVE std_reverse(_, _, _)
std_reverse(g, first, lst) ==
    IF i_tuple2_eq(first, lst) THEN [g |-> g, ex |-> "none"]
    ELSE IF point_area_width(g.area) = 0 THEN [g |-> g, ex |-> "undefined"]
    ELSE LET back == Map_Iterator_dec(g.area, lst)
         IN  IF i_tuple2_eq(first, back) THEN [g |-> g, ex |-> "none"]
             ELSE LET r == Map_swap(g, first, back)
                  IN  IF r.ex # "none" THEN r
                      ELSE std_reverse(r.g, Map_Iterator_inc(g.area, first),
                                       back)

\* Map::reverse: std::reverse(this->begin(), this->end())
Map_reverse(g) == std_reverse(g, Map_begin(g.area), Map_end(g.area))

(***************************************************************************)
(* SpecFlip: a MapContainer of 0..MaxF columns and rows, at the origin or  *)
(* away from it, with every 0/1 content, transformed in place twice.       *)
(***************************************************************************)
MaxF == 3

FlipOrigins == {<<0, 0>>, <<1, 0 - 2>>}

\* the grids w wide and h high at origin o, with every content
FlipGrids(o, w, h) ==
    {[kind |-> "MapContainer",
      area |-> point_area(o[1], o[2], o[1] + w, o[2] + h),
      m_contents |-> c] : c \in [0..(w * h - 1) -> Vals]}

InitFlip ==
    /\ rc = Idle /\ it = Idle /\ maskA = Idle /\ maskB = Idle
    /\ denseA = Idle /\ ff = Idle /\ ca = Idle
    /\ \E o \in FlipOrigins, w \in 0..MaxF, h \in 0..MaxF :
          grid \in FlipGrids(o, w, h)
    /\ last = [op |-> "construct", n |-> 0, ex |-> "none"]

\* grid.flipX(), grid.flipY() or grid.reverse()
CallTransform ==
    /\ last.n < 2 /\ last.ex = "none"
    /\ \E op \in {"flipX", "flipY", "reverse"} :
          \E r \in {CASE op = "flipX" -> Map_flipX(grid)
                      [] op = "flipY" -> Map_flipY(grid)
                      [] op = "reverse" -> Map_reverse(grid)} :
             /\ grid' = r.g
             /\ last' = [op |-> op, n |-> last.n + 1, ex |-> r.ex,
                         pre |-> grid, was |-> last.op]
    /\ UNCHANGED notTurn

NextFlip == CallTransform

SpecFlip == InitFlip /\ [][NextFlip]_vars

\* grid holds at (x, y) what pre held at the mirror cell in the columns
\* (mx), the rows (my) or both
Mirrored(pre, g, mx, my) ==
    /\ g.area = pre.area
    /\ \A p \in DomainOf(pre) :
          Grid_at(g, IF mx THEN pre.area.x1 + pre.area.x2 - 1 - p.x ELSE p.x,
                     IF my THEN pre.area.y1 + pre.area.y2 - 1 - p.y ELSE p.y)
              = Grid_at(pre, p.x, p.y)

FlipCorrect ==
    /\ last.ex = "none"
    /\ last.op = "flipX" => Mirrored(last.pre, grid, TRUE, FALSE)
    /\ last.op = "flipY" => Mirrored(last.pre, grid, FALSE, TRUE)
    /\ last.op = "reverse" =>
          /\ Mirrored(last.pre, grid, TRUE, TRUE)
          /\ \E r \in {Map_flipX(last.pre)} :
                r.ex = "none" /\ Map_flipY(r.g) = [g |-> grid, ex |-> "none"]
    /\ (last.n = 2 /\ last.was = last.op) =>
          Mirrored(last.pre, grid, last.op # "flipY", last.op # "flipX")

\* C23: flipX moves the value at (x, y) to (x1+x2-1-x, y), flipY to
\* (x, y1+y2-1-y) and reverse to (x1+x2-1-x, y1+y2-1-y), which is the grid
\* flipX followed by flipY gives; none raises an error, for every grid.
C23_ReverseIsFlipXThenFlipY ==
    last.op \in {"flipX", "flipY", "reverse"} => FlipCorrect

\* C23, of the grids that hold a cell
C23_NonEmptyReverseIsFlipXThenFlipY ==
    (/\ last.op \in {"flipX", "flipY", "reverse"}
     /\ point_area_area(grid.area) > 0) => FlipCorrect

\* C23: a transformation applied twice has restored the grid
C23_TwiceRestores ==
    (/\ last.n = 2 /\ last.ex = "none" /\ last.was = last.op
     /\ point_area_area(grid.area) > 0)
        => \E r \in {CASE last.op = "flipX" -> Map_flipX(grid)
                       [] last.op = "flipY" -> Map_flipY(grid)
                       [] last.op = "reverse" -> Map_reverse(grid)} :
              r.ex = "none" /\ r.g = last.pre

(***************************************************************************)
(* Wrapping a point into a rectangle.                                      *)
(***************************************************************************)
\* the % of C++ on ints: the remainder has the sign of the dividend
CRem(a, b) == IF a >= 0 THEN a % b ELSE 0 - ((0 - a) % b)

\* i_rectangle::wrap(pt)
i_rectangle_wrap(r, pt) ==
    [x |-> CRem(r.w + CRem(pt.x - r.x, r.w), r.w) + r.x,
     y |-> CRem(r.h + CRem(pt.y - r.y, r.h), r.h) + r.y]

\* wrap_point(p, area)
wrap_point(p, area) ==
    [x |-> CRem(CRem(p.x - area.x, area.w) + area.w, area.w) + area.x,
     y |-> CRem(CRem(p.y - area.y, area.h) + area.h, area.h) + area.y]

\* Area::getWrapValue(pt) (hrzn)
Area_getWrapValue(a, pt) ==
    [x |-> CRem(Area_width(a) + CRem(pt.x - a.x1, Area_width(a)),
                Area_width(a)),
     y |-> CRem(Area_height(a) + CRem(pt.y - a.y1, Area_height(a)),
                Area_height(a))]

(***************************************************************************)
(* SpecWrap: one wrap of a point up to WrapReach away from the origin into *)
(* a rectangle of up to MaxWrap columns and rows.                          *)
(***************************************************************************)
MaxWrap == 3

WrapReach == 7

WrapOrigins == {<<0, 0>>, <<3, 5>>, <<0 - 2, 1>>}

InitWrap ==
    /\ it = Idle /\ grid = Idle /\ last = Idle /\ maskA = Idle
    /\ maskB = Idle /\ denseA = Idle /\ ff = Idle /\ ca = Idle
    /\ \E o \in WrapOrigins, w \in 1..MaxWrap, h \in 1..MaxWrap :
          rc = [op |-> "none", a |-> Area(o[1], o[2], o[1] + w - 1, o[2] + h - 1)]

\* the three wrap functions, given the rectangle as an i_rectangle or as
\* an Area of the same cells
CallWrap ==
    /\ rc.op = "none"
    /\ \E fn \in {"i_rectangle::wrap", "wrap_point", "Area::getWrapValue"},
          x \in (0 - WrapReach)..WrapReach, y \in (0 - WrapReach)..WrapReach :
          LET p == [x |-> x, y |-> y]
          IN  rc' = [op |-> fn, a |-> rc.a, p |-> p,
                     out |-> CASE fn = "i_rectangle::wrap" ->
                                    i_rectangle_wrap(RectOfArea(rc.a), p)
                               [] fn = "wrap_point" ->
                                    wrap_point(p, RectOfArea(rc.a))
                               [] fn = "Area::getWrapValue" ->
                                    Area_getWrapValue(rc.a, p)]
    /\ UNCHANGED notRc

NextWrap == CallWrap

SpecWrap == InitWrap /\ [][NextWrap]_vars

WrapCorrect ==
    /\ Area_contains(rc.a, rc.out.x, rc.out.y)
    /\ (rc.out.x - rc.p.x) % Area_width(rc.a) = 0
    /\ (rc.out.y - rc.p.y) % Area_height(rc.a) = 0
    /\ Area_contains(rc.a, rc.p.x, rc.p.y) => rc.out = rc.p

\* C24: the wrapped point lies in the rectangle and differs from the point
\* by a multiple of the width in x and of the height in y; a point of the
\* rectangle is returned as it is.
C24_WrapLandsInRectangle ==
    rc.op # "none" => WrapCorrect

\* C24, of i_rectangle::wrap and wrap_point
C24_RectangleWrapLandsInRectangle ==
    rc.op \in {"i_rectangle::wrap", "wrap_point"} => WrapCorrect

\* C24, of Area::getWrapValue: the result is the wrapped point moved by the
\* rectangle's corner (x1, y1) towards the origin
C24_GetWrapValueIsRelative ==
    rc.op = "Area::getWrapValue" =>
        rc.out = [x |-> wrap_point(rc.p, RectOfArea(rc.a)).x - rc.a.x1,
                  y |-> wrap_point(rc.p, RectOfArea(rc.a)).y - rc.a.y1]

(***************************************************************************)
(* C25: at and set of a view outside the view's own domain.                *)
(***************************************************************************)
\* C25: on a view, at(x, y) and set(x, y, v) with (x, y) outside the view's
\* own domain raise out_of_range and leave the view and its source as they
\* were, also when (x, y) is a cell of the source.
C25_ViewRejectsOutsideItsDomain ==
    [][(/\ last'.op \in {"at", "set"}
        /\ grid.kind = "SubMatrix"
        /\ ~Grid_contains(grid, last'.x, last'.y))
          => (last'.ex = "out_of_range" /\ grid' = grid)]_vars

\* C25, as the code has it: at and set of a SubMatrix are those of its
\* source, whatever the view's own domain
C25_ViewForwardsToSource ==
    [][(last'.op \in {"at", "set"} /\ grid.kind = "SubMatrix")
          => /\ last'.ex =
                  IF Grid_contains(grid.m_source, last'.x, last'.y)
                  THEN "none" ELSE "out_of_range"
             /\ last'.op = "set" /\ last'.ex = "none"
                  => Grid_at(grid'.m_source, last'.x, last'.y)
                        = Got(last'.v)]_vars

(***************************************************************************)
(* Resizing a view.                                                        *)
(***************************************************************************)
\* SubMatrix::resize: the asked rectangle is intersected with the view's
\* own area (the braces build an Area, which orders the corners, and so
\* does the Area that intersect returns)
SubMatrix_resize(g, xa, ya, xb, yb) ==
    LET new_rect == Area_intersect(g.area, Area(xa, ya, xb, yb))
    IN  [g EXCEPT !.area = Area_resize(new_rect.x1, new_rect.y1,
                                       new_rect.x2, new_rect.y2)]

\* ISubMap::resize: hArea::resize(xa, ya, xb, yb)
ISubMap_resize(g, xa, ya, xb, yb) ==
    [g EXCEPT !.area = hArea_resize(xa, ya, xb, yb)]

(***************************************************************************)
(* SpecSub: a view created inside a source of two cells at the origin,     *)
(* then resized to rectangles with columns in -1..MaxSub and rows in -1..1 *)
(* and filled.                                                             *)
(***************************************************************************)
MaxSub == 2

SubSource == Area(0, 0, 1, 0)

SubCoords == (0 - 1)..MaxSub

SubRows == (0 - 1)..1

\* the areas a view is created with: the rectangles inside the source
SubAreas ==
    {Area(xa, 0, xb, 0) : xa \in 0..1, xb \in 0..1}

notSub == <<rc, it, maskA, maskB, denseA, ff, ca>>

InitSub ==
    /\ grid \in {SubMatrix(a, MatrixContainer(SubSource, 0)) : a \in SubAreas}
          \cup {ISubMap(a, HMap(SubSource, 0)) : a \in SubAreas}
    /\ last = [op |-> "construct", ex |-> "none"]
    /\ rc = Idle /\ it = Idle /\ maskA = Idle /\ maskB = Idle
    /\ denseA = Idle /\ ff = Idle /\ ca = Idle

\* view.resize(xa, ya, xb, yb) on a SubMatrix
CallSubMatrixResize ==
    /\ grid.kind = "SubMatrix"
    /\ \E xa \in SubCoords, ya \in SubRows, xb \in SubCoords,
          yb \in SubRows :
          /\ grid' = SubMatrix_resize(grid, xa, ya, xb, yb)
          /\ last' = [op |-> "resize", ex |-> "none",
                      asked |-> Area(xa, ya, xb, yb)]
    /\ UNCHANGED notSub

\* view.resize(xa, ya, xb, yb) on an ISubMap
CallISubMapResize ==
    /\ grid.kind = "ISubMap"
    /\ \E xa \in SubCoords, ya \in SubRows, xb \in SubCoords,
          yb \in SubRows :
          /\ grid' = ISubMap_resize(grid, xa, ya, xb, yb)
          /\ last' = [op |-> "resize", ex |-> "none",
                      asked |-> Area(xa, ya, xb, yb)]
    /\ UNCHANGED notSub

\* view.fill(v)
CallSubFill ==
    /\ \E v \in Vals :
          \E r \in {Grid_fill(grid, v)} :
             /\ grid' = r.g
             /\ last' = [op |-> "fill", ex |-> r.ex, v |-> v]
    /\ UNCHANGED notSub

NextSub == CallSubMatrixResize \/ CallISubMapResize \/ CallSubFill

SpecSub == InitSub /\ [][NextSub]_vars

\* every coordinate of the view's domain is a coordinate of its source
ViewInsideSource(g) ==
    \A p \in DomainOf(g) : Grid_contains(g.m_source, p.x, p.y)

\* C26: after construction and after any sequence of resize calls the
\* domain of a view lies inside the domain of its source, and a fill
\* through the view raises no out-of-range error.
C26_ViewStaysInsideSource ==
    /\ ViewInsideSource(grid)
    /\ last.op = "fill" => last.ex # "out_of_range"

\* C26, for a SubMatrix resized to a rectangle that has a cell in common
\* with the view: the new domain is the common part
C26_OverlappingSubMatrixResizeShrinks ==
    [][(/\ last'.op = "resize"
        /\ grid.kind = "SubMatrix"
        /\ DomainOf(grid) \cap PointSet(last'.asked) # {})
          => DomainOf(grid') = DomainOf(grid) \cap PointSet(last'.asked)]_vars

\* C26, as the code has it: an ISubMap takes the asked rectangle as its
\* domain, and a fill raises out_of_range exactly when the view has a cell
\* outside its source
C26_UnclampedViewFillThrows ==
    [][/\ (last'.op = "resize" /\ grid.kind = "ISubMap")
            => DomainOf(grid') = PointSet(last'.asked)
       /\ last'.op = "fill"
            => (last'.ex = "out_of_range") = ~ViewInsideSource(grid)]_vars

(***************************************************************************)
(* Assignment through references.                                          *)
(***************************************************************************)
\* "*p = val" for the RegionPoint p of the iterator i steps into
\* g.region(): p.data is the address of what g.at(p.x, p.y) returned
RegionPoint_assign(g, i, val) ==
    LET pt == RegionPoint(g.area, g.area, i)
    IN  IF g.kind = "HMask" THEN [g |-> g, ex |-> pt.data.ex]
        ELSE ArrayWrite(g, pt.data, val)

(***************************************************************************)
(* SpecRef: a bit-packed or a dense grid over a rectangle of the box,      *)
(* written by set, through at's reference, through a region iterator and   *)
(* by replace.                                                             *)
(***************************************************************************)
notRef == <<rc, it, maskA, maskB, denseA, ff, ca>>

InitRef ==
    /\ grid \in {HMask(a) : a \in BoxAreas}
          \cup {MatrixContainer(a, 0) : a \in BoxAreas}
    /\ last = [op |-> "construct", ex |-> "none"]
    /\ rc = Idle /\ it = Idle /\ maskA = Idle /\ maskB = Idle
    /\ denseA = Idle /\ ff = Idle /\ ca = Idle

\* grid.set(x, y, v)
RefSet ==
    /\ \E p \in Probes(grid), v \in Vals :
          \E r \in {Grid_set(grid, p.x, p.y, v)} :
             /\ grid' = r.g
             /\ last' = [op |-> "set", x |-> p.x, y |-> p.y, v |-> v,
                         ex |-> r.ex]
    /\ UNCHANGED notRef

\* grid.at(x, y) = v
RefAssignAt ==
    /\ \E p \in Probes(grid), v \in Vals :
          \E r \in {Grid_assign(grid, p.x, p.y, v)} :
             /\ grid' = r.g
             /\ last' = [op |-> "at=", x |-> p.x, y |-> p.y, v |-> v,
                         ex |-> r.ex]
    /\ UNCHANGED notRef

\* auto it = grid.region().begin(); ++it i times; **it = v
RefAssignIterator ==
    /\ \E i \in 0..(Area_area(grid.area) - 1), v \in Vals :
          \E r \in {RegionPoint_assign(grid, i, v)} :
             /\ grid' = r.g
             /\ last' = [op |-> "*it=",
                         x |-> RegionPoint(grid.area, grid.area, i).x,
                         y |-> RegionPoint(grid.area, grid.area, i).y,
                         v |-> v, ex |-> r.ex]
    /\ UNCHANGED notRef

\* replace(grid, find, repl) of htl/utility.h
RefReplace ==
    /\ \E find \in Vals, repl \in Vals :
          \E r \in {htl_replace(grid, find, repl)} :
             /\ grid' = r.g
             /\ last' = [op |-> "replace", find |-> find, repl |-> repl,
                         ex |-> r.ex]
    /\ UNCHANGED notRef

NextRef == RefSet \/ RefAssignAt \/ RefAssignIterator \/ RefReplace

SpecRef == InitRef /\ [][NextRef]_vars

\* the assignment just made left the grid as set(x, y, v) would, and at(x, y)
\* now returns v
StoredAsBySet ==
    /\ grid' = Grid_set(grid, last'.x, last'.y, last'.v).g
    /\ Grid_at(grid', last'.x, last'.y) = Got(last'.v)

\* C27: for every grid variant, the bit-packed one included, a value
\* assigned through the reference at(x, y) returns, or through an
\* iterator, is stored in the grid: at(x, y) then returns it, as after
\* set(x, y, value).
C27_ReferenceAssignmentStores ==
    [][(last'.op \in {"at=", "*it="} /\ last'.ex = "none")
          => StoredAsBySet]_vars

\* C27, for the dense grid
C27_DenseReferenceAssignmentStores ==
    [][(/\ last'.op \in {"at=", "*it="}
        /\ last'.ex = "none"
        /\ grid.kind = "MatrixContainer")
          => StoredAsBySet]_vars

\* C27, as the code has it: on the bit-packed grid an assignment through
\* at's reference or through an iterator, and replace, change no cell
C27_HMaskReferenceAssignmentIsLost ==
    [][(last'.op \in {"at=", "*it=", "replace"} /\ grid.kind = "HMask")
          => grid' = grid]_vars

(***************************************************************************)
(* Comparing iterators.                                                    *)
(***************************************************************************)
\* IterableArea::iterator(i, w, x, y) (hrzn)
IterableArea_iterator(i, w, x, y) ==
    [m_i |-> i, m_w |-> w, m_x |-> x, m_y |-> y,
     x |-> x + (i % w), y |-> y + (i \div w)]

\* IterableArea::iterator::operator++
IterableArea_iterator_inc(p) ==
    IterableArea_iterator(p.m_i + 1, p.m_w, p.m_x, p.m_y)

\* operator==(IterableArea::iterator, IterableArea::iterator)
IterableArea_iterator_eq(a, b) == a.m_i = b.m_i

IterableArea_begin(a) == IterableArea_iterator(0, Area_width(a), a.x1, a.y1)

IterableArea_end(a) ==
    IterableArea_iterator(Area_area(a), Area_width(a), a.x1, a.y1)

(***************************************************************************)
(* SpecEq: two iterators, over the same or over two different sources,     *)
(* each advanced from begin() towards end() and then compared.  The        *)
(* sources are rectangles 1..MaxEq wide and high at two origins; a Map     *)
(* source also has an identity, the address of the grid.                   *)
(***************************************************************************)
MaxEq == 2

EqOrigins == {0, 1}

EqAreas ==
    {Area(o, 0, o + w - 1, h - 1) : o \in EqOrigins, w \in 1..MaxEq,
                                    h \in 1..MaxEq}

EqPointAreas ==
    {point_area(o, 0, o + w, h) : o \in EqOrigins, w \in 1..MaxEq,
                                  h \in 1..MaxEq}

\* the two grids
EqMaps == {[id |-> n, area |-> m] : n \in 1..2, m \in EqPointAreas}

notEq == <<rc, grid, last, maskA, maskB, denseA, ff, ca>>

InitEq ==
    /\ \/ \E a \in EqAreas, b \in EqAreas :
             it = [kind |-> "IterableArea", compared |-> FALSE, out |-> FALSE,
                   a |-> [src |-> a, cur |-> IterableArea_begin(a)],
                   b |-> [src |-> b, cur |-> IterableArea_begin(b)]]
       \/ \E a \in EqMaps, b \in EqMaps :
             /\ a.id = 1
             /\ a.id = b.id => a.area = b.area
             /\ it = [kind |-> "Map::Iterator", compared |-> FALSE, out |-> FALSE,
                      a |-> [src |-> a, cur |-> Map_begin(a.area)],
                      b |-> [src |-> b, cur |-> Map_begin(b.area)]]
    /\ rc = Idle /\ grid = Idle /\ last = Idle
    /\ maskA = Idle /\ maskB = Idle /\ denseA = Idle
    /\ ff = Idle /\ ca = Idle

\* ++a or ++b on an IterableArea::iterator that is not at end()
IterableAreaStep ==
    /\ it.kind = "IterableArea"
    /\ \/ /\ ~IterableArea_iterator_eq(it.a.cur, IterableArea_end(it.a.src))
          /\ it' = [it EXCEPT !.a.cur = IterableArea_iterator_inc(@),
                              !.compared = FALSE, !.out = FALSE]
       \/ /\ ~IterableArea_iterator_eq(it.b.cur, IterableArea_end(it.b.src))
          /\ it' = [it EXCEPT !.b.cur = IterableArea_iterator_inc(@),
                              !.compared = FALSE, !.out = FALSE]
    /\ UNCHANGED notEq

\* ++a or ++b on a Map::Iterator that is not at end()
MapIteratorPairStep ==
    /\ it.kind = "Map::Iterator"
    /\ \/ /\ ~i_tuple2_eq(it.a.cur, Map_end(it.a.src.area))
          /\ it' = [it EXCEPT !.a.cur = Map_Iterator_inc(it.a.src.area, @),
                              !.compared = FALSE, !.out = FALSE]
       \/ /\ ~i_tuple2_eq(it.b.cur, Map_end(it.b.src.area))
          /\ it' = [it EXCEPT !.b.cur = Map_Iterator_inc(it.b.src.area, @),
                              !.compared = FALSE, !.out = FALSE]
    /\ UNCHANGED notEq

\* a == b
CompareIterators ==
    /\ ~it.compared
    /\ it' = [it EXCEPT !.compared = TRUE, !.out =
                 IF it.kind = "IterableArea"
                 THEN IterableArea_iterator_eq(it.a.cur, it.b.cur)
                 ELSE i_tuple2_eq(it.a.cur, it.b.cur)]
    /\ UNCHANGED notEq

NextEq == IterableAreaStep \/ MapIteratorPairStep \/ CompareIterators

SpecEq == InitEq /\ [][NextEq]_vars

\* the two iterators come from different sources: two grids, or two areas
\* that differ in origin or width
DifferentSources ==
    IF it.kind = "IterableArea"
    THEN \/ it.a.src.x1 # it.b.src.x1
         \/ it.a.src.y1 # it.b.src.y1
         \/ Area_width(it.a.src) # Area_width(it.b.src)
    ELSE it.a.src.id # it.b.src.id

\* the linear index of the cell an iterator over the rows of a rectangle
\* at (x1, y1), w wide, stands at
LinearIndex(p, x1, y1, w) == (p.x - x1) + (p.y - y1) * w

SameLinearIndex ==
    IF it.kind = "IterableArea"
    THEN LinearIndex(it.a.cur, it.a.src.x1, it.a.src.y1, Area_width(it.a.src))
       = LinearIndex(it.b.cur, it.b.src.x1, it.b.src.y1, Area_width(it.b.src))
    ELSE LinearIndex(it.a.cur, it.a.src.area.x1, it.a.src.area.y1,
                     point_area_width(it.a.src.area))
       = LinearIndex(it.b.cur, it.b.src.area.x1, it.b.src.area.y1,
                     point_area_width(it.b.src.area))

\* C28: iterators from different sources never compare equal; iterators
\* over the same source compare equal iff they stand at the same linear
\* index.
C28_EqualIffSameSourceAndIndex ==
    it.compared
       => it.out = (~DifferentSources /\ SameLinearIndex)

\* C28, for two iterators over one source
C28_SameSourceEqualIffSameIndex ==
    (it.compared /\ ~DifferentSources) => it.out = SameLinearIndex

\* C28, as the code has it: IterableArea iterators are equal iff their step
\* counts are, Map iterators iff their coordinates are, whatever the
\* sources
C28_EqualityIgnoresTheSource ==
    it.compared
       => it.out = IF it.kind = "IterableArea"
                   THEN it.a.cur.m_i = it.b.cur.m_i
                   ELSE it.a.cur.x = it.b.cur.x /\ it.a.cur.y = it.b.cur.y

(***************************************************************************)
(* The free functions contains(area, point).                               *)
(***************************************************************************)
\* contains(const Area&, const hPoint&) of hrzn/utility.h
utility_contains(a, b) ==
    b.x >= a.x1 /\ b.y >= a.y1 /\ b.x <= a.x2 /\ b.y <= a.x2

\* contains(const hArea&, const hPoint&) of htl/utility.h
htl_contains(a, b) ==
    b.x >= a.x1 /\ b.y >= a.y1 /\ b.x < a.x2 /\ b.y < a.x2

(***************************************************************************)
(* SpecContains: a rectangle with corners in 0..MaxC and a point with      *)
(* coordinates in -1..MaxC+1, given to the free function and to the        *)
(* member.                                                                 *)
(***************************************************************************)
MaxC == 3

ContainsAreas ==
    {Area(xa, ya, xb, yb) : xa \in 0..MaxC, ya \in 0..MaxC,
                            xb \in 0..MaxC, yb \in 0..MaxC}

ContainsPoints ==
    {[x |-> x, y |-> y] : x \in (0 - 1)..(MaxC + 1), y \in (0 - 1)..(MaxC + 1)}

InitContains ==
    /\ \E a \in ContainsAreas : rc = [op |-> "none", a |-> a]
    /\ it = Idle /\ grid = Idle /\ last = Idle
    /\ maskA = Idle /\ maskB = Idle /\ denseA = Idle
    /\ ff = Idle /\ ca = Idle

\* contains(a, p) and a.contains(p), hrzn
CallUtilityContains ==
    /\ rc.op = "none"
    /\ \E p \in ContainsPoints :
          rc' = [op |-> "utility_contains", a |-> rc.a, p |-> p,
                 out |-> utility_contains(rc.a, p),
                 member |-> Area_contains(rc.a, p.x, p.y)]
    /\ UNCHANGED notRc

\* contains(a, p) and a.contains(p), htl
CallHtlContains ==
    /\ rc.op = "none"
    /\ \E p \in ContainsPoints :
          rc' = [op |-> "htl_contains", a |-> rc.a, p |-> p,
                 out |-> htl_contains(rc.a, p),
                 member |-> Area_contains(rc.a, p.x, p.y)]
    /\ UNCHANGED notRc

NextContains == CallUtilityContains \/ CallHtlContains

SpecContains == InitContains /\ [][NextContains]_vars

\* C29: the free function contains(area, point) returns what the member
\* area.contains(point) returns, for every rectangle and every point: true
\* iff x lies in the rectangle's x-range and y in its y-range.
C29_FreeContainsIsMemberContains ==
    rc.op # "none"
       => /\ rc.out = rc.member
          /\ rc.out = (/\ rc.p.x \in rc.a.x1..rc.a.x2
                       /\ rc.p.y \in rc.a.y1..rc.a.y2)

\* C29, for the rectangles of hrzn whose last row has the number of the
\* last column
C29_UtilityContainsWhenY2IsX2 ==
    (rc.op = "utility_contains" /\ rc.a.y2 = rc.a.x2) => rc.out = rc.member

\* C29, as the code has it: the member is true exactly on the rectangle;
\* the free functions test y against x2, and the one of htl excludes x2
C29_FreeContainsTestsYAgainstX2 ==
    rc.op # "none"
       => /\ rc.member = (/\ rc.p.x \in rc.a.x1..rc.a.x2
                          /\ rc.p.y \in rc.a.y1..rc.a.y2)
          /\ rc.out = (/\ rc.p.x \in rc.a.x1..
                             (IF rc.op = "htl_contains" THEN rc.a.x2 - 1
                              ELSE rc.a.x2)
                       /\ rc.p.y >= rc.a.y1
                       /\ rc.p.y <= (IF rc.op = "htl_contains"
                                     THEN rc.a.x2 - 1 ELSE rc.a.x2))

(***************************************************************************)
(* The free function fill(map, v) of htl/utility.h.                        *)
(***************************************************************************)
\* the points HRZN_FOREACH_POINT(A, X, Y) visits, in order:
\* "for (Y = A.y1; Y < A.y2; ++Y) for (X = A.x1; X < A.x2; ++X)"
HRZN_FOREACH_POINT(a) == LoopPoints(a.x1, a.x2 - 1, a.y1, a.y2 - 1)

\* fill(IMap<T>& map, const T& fill_obj)
htl_fill(g, fill_obj) ==
    LET pts == HRZN_FOREACH_POINT(g.area)
    IN  SetEach(g, pts, 1, Len(pts), fill_obj)

(***************************************************************************)
(* SpecFill: an HMap over a rectangle of the box, written by set, by the   *)
(* member fill and by the free function fill.                              *)
(***************************************************************************)
InitFill ==
    /\ grid \in {HMap(a, v) : a \in BoxAreas, v \in Vals}
    /\ last = [op |-> "construct", ex |-> "none"]
    /\ rc = Idle /\ it = Idle /\ maskA = Idle /\ maskB = Idle
    /\ denseA = Idle /\ ff = Idle /\ ca = Idle

\* map.set(x, y, v)
FillSet ==
    /\ \E p \in DomainOf(grid), v \in Vals :
          \E r \in {HMap_set(grid, p.x, p.y, v)} :
             /\ grid' = r.g
             /\ last' = [op |-> "set", x |-> p.x, y |-> p.y, v |-> v,
                         ex |-> r.ex]
    /\ UNCHANGED notGrid

\* map.fill(v)
CallMemberFill ==
    /\ \E v \in Vals :
          \E r \in {IMap_fill(grid, v)} :
             /\ grid' = r.g
             /\ last' = [op |-> "IMap::fill", ex |-> r.ex, v |-> v]
    /\ UNCHANGED notGrid

\* fill(map, v)
CallHtlFill ==
    /\ \E v \in Vals :
          \E r \in {htl_fill(grid, v)} :
             /\ grid' = r.g
             /\ last' = [op |-> "fill", ex |-> r.ex, v |-> v]
    /\ UNCHANGED notGrid

NextFill == FillSet \/ CallMemberFill \/ CallHtlFill

SpecFill == InitFill /\ [][NextFill]_vars

\* the coordinates HRZN_FOREACH_POINT visits on grid g
Visited(g) ==
    {HRZN_FOREACH_POINT(g.area)[k] :
        k \in 1..Len(HRZN_FOREACH_POINT(g.area))}

\* C30: fill(map, v) leaves the grid map.fill(v) leaves: the macro visits
\* exactly the coordinates of the domain, so afterwards every cell of the
\* domain, the last row and the last column included, reads v.
C30_FreeFillIsMemberFill ==
    [][last'.op = "fill"
          => /\ grid' = IMap_fill(grid, last'.v).g
             /\ Visited(grid) = DomainOf(grid)
             /\ \A p \in DomainOf(grid) :
                   Grid_at(grid', p.x, p.y) = Got(last'.v)]_vars

\* C30, for the member: every cell of the domain reads v afterwards
C30_MemberFillWritesDomain ==
    [][last'.op = "IMap::fill"
          => \A p \in DomainOf(grid) :
                Grid_at(grid', p.x, p.y) = Got(last'.v)]_vars

\* C30, as the code has it: the free function writes the domain without
\* its last row and last column and leaves those as they were
C30_FreeFillSkipsLastRowAndColumn ==
    [][last'.op = "fill"
          => /\ last'.ex = "none"
             /\ \A p \in DomainOf(grid) :
                   Grid_at(grid', p.x, p.y) =
                      IF p.x < grid.area.x2 /\ p.y < grid.area.y2
                      THEN Got(last'.v)
                      ELSE Grid_at(grid, p.x, p.y)]_vars

====
